---- MODULE Spec2Model ----
(***************************************************************************)
(* Extraction and association engine of the CEM/EMI RAW DATA pipeline:     *)
(*   parser_mod.extract_data and the functions it calls (configuration     *)
(*   discovery, backward association scan, row extraction, deduplication)  *)
(*   and rules.process_data / rules.compute_section_and_global.            *)
(*                                                                         *)
(* A Document is a sequence of Blocks (doc.tables), a Block a sequence of  *)
(* Rows (table.rows), a Row a sequence of cell texts (cell.text).  Cell    *)
(* texts are strings; the Python string operations the code relies on      *)
(* (in, lower, strip, replace, split, join, re.match) are computed on the  *)
(* characters.  The texts are over ISO 8859-1 (U+0000..U+00FF) and the     *)
(* Greek mu of the unit substitutions.  A Python dict is a sequence of     *)
(* key/value entries in insertion order.                                   *)
(***************************************************************************)
EXTENDS Integers, Sequences, FiniteSets, TLC

(***************************************************************************)
(* Bounds of the model                                                     *)
(***************************************************************************)
\* longest Document of the structural family (Init)
MaxBlocks == 3
\* most data rows of a generated measurement table (InitRows)
MaxRows == 2

(***************************************************************************)
(* Python strings                                                          *)
(***************************************************************************)
\* s[i:j] with 1-based inclusive bounds, "" when the slice is empty
Slice(s, i, j) == IF i > j THEN "" ELSE SubSeq(s, i, j)

CharAt(s, i) == SubSeq(s, i, i)

\* s.find(t, i): the first place at or after i where t occurs in s, 0 for none
RECURSIVE Find(_, _, _)
Find(s, t, i) ==
  IF i + Len(t) - 1 > Len(s) THEN 0
  ELSE IF Slice(s, i, i + Len(t) - 1) = t THEN i
  ELSE Find(s, t, i + 1)

\* t in s
Contains(s, t) == Find(s, t, 1) # 0

\* the upper-case letters of the cell texts and, place by place, what
\* c.lower() makes of them
UpperChars == "ABCDEFGHIJKLMNOPQRSTUVWXYZÀÁÂÃÄÅÆÇÈÉÊËÌÍÎÏÐÑÒÓÔÕÖØÙÚÛÜÝÞ"

LowerChars == "abcdefghijklmnopqrstuvwxyzàáâãäåæçèéêëìíîïðñòóôõöøùúûüýþ"

\* c.lower() of an upper-case letter
LowerOf ==
  [c \in { CharAt(UpperChars, i) : i \in 1..Len(UpperChars) } |->
     CharAt(LowerChars, Find(UpperChars, c, 1))]

\* the first upper-case letter of s at or after i, 0 for none
RECURSIVE FindUpper(_, _)
FindUpper(s, i) ==
  IF i > Len(s) THEN 0
  ELSE IF CharAt(s, i) \in DOMAIN LowerOf THEN i
  ELSE FindUpper(s, i + 1)

\* s[i..].lower(), given the first upper-case letter u of s at or after i
RECURSIVE LowerFrom(_, _, _)
LowerFrom(s, i, u) ==
  IF u = 0 THEN Slice(s, i, Len(s))
  ELSE Slice(s, i, u - 1) \o LowerOf[CharAt(s, u)] \o LowerFrom(s, u + 1, FindUpper(s, u + 1))

\* s.lower()
Lower(s) == LowerFrom(s, 1, FindUpper(s, 1))

\* the white space of str.strip(), str.split() and float(): tab, line feed,
\* vertical tab, form feed, carriage return, the separators U+001C..U+001F,
\* space, next line U+0085 and no-break space U+00A0
WhiteSpace == { "\t", "\n", "", "\f", "\r", "", "", "", "", " ", "", " " }

IsSpace(c) == c \in WhiteSpace

RECURSIVE LStrip(_)
LStrip(s) ==
  IF s # "" /\ IsSpace(CharAt(s, 1)) THEN LStrip(Slice(s, 2, Len(s))) ELSE s

RECURSIVE RStrip(_)
RStrip(s) ==
  IF s # "" /\ IsSpace(CharAt(s, Len(s))) THEN RStrip(Slice(s, 1, Len(s) - 1)) ELSE s

\* s.strip()
Strip(s) == RStrip(LStrip(s))

\* s[i..].replace(old, new), given the first place h of old in s at or after i:
\* the occurrences are replaced from the left and do not overlap
RECURSIVE ReplaceFrom(_, _, _, _, _)
ReplaceFrom(s, old, new, i, h) ==
  IF h = 0 THEN Slice(s, i, Len(s))
  ELSE Slice(s, i, h - 1) \o new
         \o ReplaceFrom(s, old, new, h + Len(old), Find(s, old, h + Len(old)))

\* s.replace(old, new), old not empty
Replace(s, old, new) == ReplaceFrom(s, old, new, 1, Find(s, old, 1))

\* s[i..].split(d), given the first place h of d in s at or after i
RECURSIVE SplitFrom(_, _, _, _)
SplitFrom(s, d, i, h) ==
  IF h = 0 THEN << Slice(s, i, Len(s)) >>
  ELSE << Slice(s, i, h - 1) >> \o SplitFrom(s, d, h + 1, Find(s, d, h + 1))

\* s.split(d) for a one-character delimiter d
Split(s, d) == SplitFrom(s, d, 1, Find(s, d, 1))

\* d.join(parts)
RECURSIVE Join(_, _)
Join(parts, d) ==
  IF Len(parts) = 0 THEN ""
  ELSE IF Len(parts) = 1 THEN parts[1]
  ELSE parts[1] \o d \o Join(Tail(parts), d)

Digits == "0123456789"

DigitOf ==
  [c \in { "0", "1", "2", "3", "4", "5", "6", "7", "8", "9" } |->
     CASE c = "0" -> 0 [] c = "1" -> 1 [] c = "2" -> 2 [] c = "3" -> 3 [] c = "4" -> 4
       [] c = "5" -> 5 [] c = "6" -> 6 [] c = "7" -> 7 [] c = "8" -> 8 [] c = "9" -> 9]

IsDigit(c) == c \in DOMAIN DigitOf

DigitVal(c) == DigitOf[c]

AllDigits(s) == \A i \in 1..Len(s) : IsDigit(CharAt(s, i))

RECURSIVE DigitsVal(_)
DigitsVal(s) ==
  IF s = "" THEN 0
  ELSE 10 * DigitsVal(Slice(s, 1, Len(s) - 1)) + DigitVal(CharAt(s, Len(s)))

RECURSIVE NatToStr(_)
NatToStr(n) ==
  IF n < 10 THEN CharAt(Digits, n + 1)
  ELSE NatToStr(n \div 10) \o CharAt(Digits, (n % 10) + 1)

\* the floats of at most three decimals are held in thousandths
Scale == 10 * 10 * 10

(***************************************************************************)
(* Natural numbers of any size: a sequence of decimal digits (or of bits), *)
(* the most significant first; leading zeros are allowed, << >> is zero.   *)
(***************************************************************************)
\* a sequence given as a function, with its elements computed
Tuple(f) == f \o << >>

Zeros(k) == Tuple([i \in 1..k |-> 0])

IsZero(ds) == \A i \in 1..Len(ds) : ds[i] = 0

DropLeadingZeros(ds) ==
  IF IsZero(ds) THEN << >>
  ELSE SubSeq(ds, CHOOSE k \in 1..Len(ds) : ds[k] # 0 /\ \A j \in 1..(k - 1) : ds[j] = 0,
              Len(ds))

DropTrailingZeros(ds) ==
  IF IsZero(ds) THEN << >>
  ELSE SubSeq(ds, 1,
              CHOOSE k \in 1..Len(ds) : ds[k] # 0 /\ \A j \in (k + 1)..Len(ds) : ds[j] = 0)

\* the digits of a text of digits, and back
DigitSeq(s) == Tuple([i \in 1..Len(s) |-> DigitVal(CharAt(s, i))])

RECURSIVE DigitStr(_)
DigitStr(ds) ==
  IF ds = << >> THEN "" ELSE CharAt(Digits, ds[1] + 1) \o DigitStr(Tail(ds))

\* the value of a short sequence of digits
RECURSIVE DigitSeqVal(_)
DigitSeqVal(ds) ==
  IF ds = << >> THEN 0
  ELSE 10 * DigitSeqVal(SubSeq(ds, 1, Len(ds) - 1)) + ds[Len(ds)]

\* ds div 2, on the same number of digits
Halve(ds) ==
  Tuple([i \in 1..Len(ds) |-> (10 * (IF i > 1 THEN ds[i - 1] % 2 ELSE 0) + ds[i]) \div 2])

\* (2 * ds + b) mod 10^Len(ds), for a bit b
TwicePlus(ds, b) ==
  Tuple([i \in 1..Len(ds) |->
           (2 * ds[i] + (IF i < Len(ds) THEN (IF ds[i + 1] >= 5 THEN 1 ELSE 0) ELSE b)) % 10])

\* 2 * ds + b
TwicePlusGrow(ds, b) ==
  IF ds = << >> THEN (IF b = 1 THEN << 1 >> ELSE << >>)
  ELSE (IF ds[1] >= 5 THEN << 1 >> ELSE << >>) \o TwicePlus(ds, b)

\* 5 * ds
FiveTimes(ds) == DropLeadingZeros(Halve(<< 0 >> \o ds \o << 0 >>))

\* 5^k * ds
RECURSIVE FiveTimesN(_, _)
FiveTimesN(ds, k) ==
  IF k = 0 \/ ds = << >> THEN ds
  ELSE IF k = 1 THEN FiveTimes(ds)
  ELSE FiveTimesN(FiveTimesN(ds, k \div 2), k - k \div 2)

\* ds + 1, in base b
PlusOne(ds, b) ==
  IF \A i \in 1..Len(ds) : ds[i] = b - 1 THEN << 1 >> \o Zeros(Len(ds))
  ELSE LET k == CHOOSE k \in 1..Len(ds) :
                  ds[k] # b - 1 /\ \A j \in (k + 1)..Len(ds) : ds[j] = b - 1
       IN Tuple([i \in 1..Len(ds) |->
                   IF i < k THEN ds[i] ELSE IF i = k THEN ds[k] + 1 ELSE 0])

\* the n low bits of the natural number ds, and ds div 2^n
RECURSIVE LowBits(_, _)
LowBits(ds, n) ==
  IF n = 0 \/ ds = << >> THEN [bits |-> Zeros(n), rest |-> ds]
  ELSE IF n = 1 THEN [bits |-> << ds[Len(ds)] % 2 >>, rest |-> Halve(ds)]
  ELSE LET lo == LowBits(ds, n \div 2)
           hi == LowBits(lo.rest, n - n \div 2)
       IN [bits |-> hi.bits \o lo.bits, rest |-> hi.rest]

\* the bits of the natural number ds, which is below 2^(4 * Len(ds))
BitsOf(ds) == DropLeadingZeros(LowBits(ds, 4 * Len(ds)).bits)

\* the natural number of the bits lo..hi of bs after the digits acc (the first
\* half of the bits gives no digit as long as the number is zero)
RECURSIVE DigitsOfBits(_, _, _, _)
DigitsOfBits(bs, lo, hi, acc) ==
  IF lo > hi THEN acc
  ELSE IF lo = hi THEN TwicePlusGrow(acc, bs[lo])
  ELSE LET left == DigitsOfBits(bs, lo, (lo + hi) \div 2, acc)
       IN IF left = << >> THEN DigitsOfBits(bs, (lo + hi) \div 2 + 1, hi, << >>)
          ELSE DigitsOfBits(bs, (lo + hi) \div 2 + 1, hi, left)

\* the first n bits after the point of the fraction 0.fs, and what is left
\* of the fraction after them
RECURSIVE FractionBits(_, _)
FractionBits(fs, n) ==
  IF n = 0 \/ fs = << >> THEN [bits |-> Zeros(n), rest |-> fs]
  ELSE IF n = 1 THEN [bits |-> << IF fs[1] >= 5 THEN 1 ELSE 0 >>, rest |-> TwicePlus(fs, 0)]
  ELSE LET a == FractionBits(fs, n \div 2)
           b == FractionBits(a.rest, n - n \div 2)
       IN [bits |-> a.bits \o b.bits, rest |-> b.rest]

\* the number of zero bits after the point before the first one bit of 0.fs,
\* 1076 for more than 1075 of them
LeadingZeroBits(fs) ==
  LET near == FractionBits(fs, 64).bits
      far  == FractionBits(fs, 1076).bits
  IN IF ~IsZero(near) THEN 64 - Len(DropLeadingZeros(near))
     ELSE 1076 - Len(DropLeadingZeros(far))

\* a and b on the same number of digits
PadTo(ds, n) == Zeros(n - Len(ds)) \o ds

\* -1, 0, 1 as a < b, a = b, a > b, for a and b of the same length
CompareDigits(a, b) ==
  IF a = b THEN 0
  ELSE LET k == CHOOSE k \in 1..Len(a) : a[k] # b[k] /\ \A j \in 1..(k - 1) : a[j] = b[j]
       IN IF a[k] < b[k] THEN 0 - 1 ELSE 1

\* a + b, for a and b of the same length: a place takes a carry when a place
\* after it overflows and the places between are all 9
AddDigits(a, b) ==
  LET n == Len(a)
      Carry(i) == \E j \in i..n : /\ a[j] + b[j] > 9
                                  /\ \A k \in i..(j - 1) : a[k] + b[k] = 9
  IN (IF Carry(1) THEN << 1 >> ELSE << >>)
       \o Tuple([i \in 1..n |-> (a[i] + b[i] + (IF Carry(i + 1) THEN 1 ELSE 0)) % 10])

\* a - b (a >= b), for a and b of the same length: a place gives a borrow when
\* a place after it is short and the places between are equal
SubDigits(a, b) ==
  LET n == Len(a)
      Borrow(i) == \E j \in i..n : /\ a[j] < b[j]
                                   /\ \A k \in i..(j - 1) : a[k] = b[k]
  IN Tuple([i \in 1..n |-> (a[i] - b[i] - (IF Borrow(i + 1) THEN 1 ELSE 0) + 10) % 10])

(***************************************************************************)
(* IEEE 754 binary64, the float of CPython.  A double is zero, finite      *)
(* (m * 2^q with m the bits of the significand, at most 53, the first of   *)
(* them 1, and q >= -1074), infinite or not a number, with a sign.         *)
(***************************************************************************)
ZeroDouble(neg) == [k |-> "zero", neg |-> neg, m |-> << >>, q |-> 0]
InfDouble(neg) == [k |-> "inf", neg |-> neg, m |-> << >>, q |-> 0]
NanDouble == [k |-> "nan", neg |-> FALSE, m |-> << >>, q |-> 0]

\* the double of the significand m at the exponent q
FiniteDouble(neg, m, q) ==
  IF m = << >> THEN ZeroDouble(neg)
  ELSE IF q + Len(m) - 1 > 1023 THEN InfDouble(neg)
  ELSE [k |-> "finite", neg |-> neg, m |-> m, q |-> q]

\* the double of a rounded significand, of 54 bits when the rounding carried
Renormalized(neg, m, q) ==
  IF Len(m) = 54 THEN FiniteDouble(neg, SubSeq(m, 1, 53), q + 1)
  ELSE FiniteDouble(neg, m, q)

\* the double of the significand m with round bit rb and sticky bit sticky
\* below it: round to nearest, ties to the even significand
RoundBits(neg, m, rb, sticky, q) ==
  Renormalized(neg,
               IF rb = 1 /\ (sticky \/ (m # << >> /\ m[Len(m)] = 1))
               THEN PlusOne(m, 2) ELSE m,
               q)

\* the double nearest to an integer of 54 bits or more with a fraction
RoundInteger(neg, ib, fs) ==
  RoundBits(neg, SubSeq(ib, 1, 53), ib[54],
            (\E i \in 55..Len(ib) : ib[i] = 1) \/ ~IsZero(fs), Len(ib) - 53)

\* the double nearest to an integer of 53 bits at most and the bits fb of a
\* fraction that fill the significand
RoundMixed(neg, ib, fb) ==
  RoundBits(neg, ib \o SubSeq(fb.bits, 1, 53 - Len(ib)), fb.bits[54 - Len(ib)],
            ~IsZero(fb.rest), Len(ib) - 53)

\* the double nearest to a fraction of z zero bits after the point, with the
\* bits fb of the fraction down to the round bit of the exponent q
RoundFraction(neg, z, q, fb) ==
  RoundBits(neg, IF z >= 0 - q THEN << >> ELSE SubSeq(fb.bits, z + 1, 0 - q),
            fb.bits[1 - q], ~IsZero(fb.rest), q)

\* the exponent of the last bit of a double whose first bit is after z zeros
FractionExponent(z) == IF 0 - z - 53 > 0 - 1074 THEN 0 - z - 53 ELSE 0 - 1074

\* the double nearest to the fraction 0.fs of z zero bits after the point
NearestFraction(neg, fs, z) ==
  IF z >= 1076 THEN ZeroDouble(neg)
  ELSE RoundFraction(neg, z, FractionExponent(z),
                     FractionBits(fs, 1 - FractionExponent(z)))

\* the double nearest to the number of integer bits ib and fraction digits fs
NearestOfBits(neg, ib, fs) ==
  IF Len(ib) >= 54 THEN RoundInteger(neg, ib, fs)
  ELSE IF Len(ib) >= 1 THEN RoundMixed(neg, ib, FractionBits(fs, 54 - Len(ib)))
  ELSE IF IsZero(fs) THEN ZeroDouble(neg)
  ELSE NearestFraction(neg, fs, LeadingZeroBits(fs))

\* the double nearest to the decimal number is.fs (integer digits is,
\* fraction digits fs)
NearestDouble(neg, is, fs) == NearestOfBits(neg, BitsOf(is), fs)

\* the double nearest to ds * 10^e
DoubleOfDecimal(neg, ds, e) ==
  NearestDouble(neg,
                IF e >= 0 THEN ds \o Zeros(e)
                ELSE IF 0 - e >= Len(ds) THEN << >>
                ELSE SubSeq(ds, 1, Len(ds) + e),
                IF e >= 0 THEN << >>
                ELSE IF 0 - e >= Len(ds) THEN Zeros(0 - e - Len(ds)) \o ds
                ELSE SubSeq(ds, Len(ds) + e + 1, Len(ds)))

\* the decimal ds * 10^q with the digits t of ds before its last zeros
Trimmed(ds, t, q) == [ds |-> t, e |-> q + Len(ds) - Len(t)]

\* the decimal ds * 10^q without the zeros at the end of ds
TrimmedOf(ds, q) == Trimmed(ds, DropTrailingZeros(ds), q)

\* the decimal number ds * 10^e a finite double is exactly
ExactDecimal(d) ==
  IF d.q >= 0 THEN [ds |-> DigitsOfBits(d.m \o Zeros(d.q), 1, Len(d.m) + d.q, << >>), e |-> 0]
  ELSE TrimmedOf(DropLeadingZeros(FiveTimesN(DigitsOfBits(d.m, 1, Len(d.m), << >>),
                                             0 - d.q)),
                 d.q)

\* the digits keep, one more when the k digits rest after them are above the
\* half, or are the half and keep is odd
RoundKept(keep, rest, k) ==
  IF /\ k > 0
     /\ \/ rest[1] > 5
        \/ /\ rest[1] = 5
           /\ \/ ~IsZero(Tail(rest))
              \/ keep[Len(keep)] % 2 = 1
  THEN PlusOne(keep, 10) ELSE keep

\* p without its last k digits, to the nearest, ties to the even, for p of
\* more than k digits
HalfEvenOf(p, k) ==
  RoundKept(SubSeq(p, 1, Len(p) - k), SubSeq(p, Len(p) - k + 1, Len(p)), k)

\* ds without its last k digits, to the nearest, ties to the even
HalfEven(ds, k) == HalfEvenOf(PadTo(ds, IF Len(ds) > k THEN Len(ds) ELSE k + 1), k)

\* the digits of the decimals a and b at the exponent e, on n digits
AlignedAt(a, b, e, n) ==
  [a |-> PadTo(a.ds \o Zeros(a.e - e), n), b |-> PadTo(b.ds \o Zeros(b.e - e), n),
   e |-> e]

\* the digits of the decimals a and b at the lower exponent e of the two
AlignedTo(a, b, e) ==
  AlignedAt(a, b, e,
            IF Len(a.ds) + a.e > Len(b.ds) + b.e
            THEN Len(a.ds) + a.e - e ELSE Len(b.ds) + b.e - e)

\* the digits of the decimals a and b at their common exponent, on the same
\* number of digits
Aligned(a, b) == AlignedTo(a, b, IF a.e < b.e THEN a.e ELSE b.e)

\* x - y of the aligned digits p of |x| and |y|, c their comparison
SubAligned(xneg, yneg, p, c) ==
  IF xneg = yneg /\ c = 0 THEN ZeroDouble(FALSE)
  ELSE DoubleOfDecimal(IF xneg # yneg \/ c > 0 THEN xneg ELSE ~xneg,
                       IF xneg # yneg THEN AddDigits(p.a, p.b)
                       ELSE IF c > 0 THEN SubDigits(p.a, p.b)
                       ELSE SubDigits(p.b, p.a),
                       p.e)

\* x - y of the aligned digits p of |x| and |y|
SubDecimals(xneg, yneg, p) == SubAligned(xneg, yneg, p, CompareDigits(p.a, p.b))

\* x - y
SubDouble(x, y) ==
  IF x.k = "nan" \/ y.k = "nan" THEN NanDouble
  ELSE IF x.k = "inf" THEN (IF y.k = "inf" /\ y.neg = x.neg THEN NanDouble ELSE x)
  ELSE IF y.k = "inf" THEN InfDouble(~y.neg)
  ELSE IF y.k = "zero" THEN (IF x.k = "zero" THEN ZeroDouble(x.neg /\ ~y.neg) ELSE x)
  ELSE IF x.k = "zero" THEN [y EXCEPT !.neg = ~y.neg]
  ELSE SubDecimals(x.neg, y.neg, Aligned(ExactDecimal(x), ExactDecimal(y)))

\* bs - 1 for bits bs that are not all zero
MinusOne(bs) ==
  LET k == CHOOSE k \in 1..Len(bs) : bs[k] = 1 /\ \A j \in (k + 1)..Len(bs) : bs[j] = 0
  IN Tuple([i \in 1..Len(bs) |-> IF i < k THEN bs[i] ELSE IF i = k THEN 0 ELSE 1])

\* -1, 0, 1 as a < b, a = b, a > b, for the aligned digits p of a and b
CompareAligned(p) == CompareDigits(p.a, p.b)

\* -1, 0, 1 as a < b, a = b, a > b, for decimals ds * 10^e
CompareDecimals(a, b) == CompareAligned(Aligned(a, b))

\* the decimals half way from the finite double d to the double below it and
\* to the double above it: the numbers between them read as d, and so do the
\* two of them when the significand of d is even
HalfBelow(d) ==
  ExactDecimal(IF Len(d.m) = 53 /\ IsZero(Tail(d.m)) /\ d.q > 0 - 1074
               THEN [m |-> MinusOne(d.m) \o << 1, 1 >>, q |-> d.q - 2]
               ELSE [m |-> MinusOne(d.m) \o << 1 >>, q |-> d.q - 1])

HalfAbove(d) == ExactDecimal([m |-> d.m \o << 1 >>, q |-> d.q - 1])

\* the decimal of the digits lo of ds, one more in the last of them for the
\* decimal above when digits of ds are left out
NeighbourOf(ds, lo, e, up) ==
  [ds |-> IF up /\ Len(lo) < Len(ds) THEN PlusOne(lo, 10) ELSE lo,
   e  |-> e + Len(ds) - Len(lo)]

\* the neighbour of the decimal of digits ds without a zero in front
NeighbourIn(ds, p, e, up) ==
  NeighbourOf(ds, IF Len(ds) <= p THEN ds ELSE SubSeq(ds, 1, p), e, up)

\* the decimal of p significant digits next below (up = FALSE) or next above
\* (up = TRUE) the decimal x
Neighbour(x, p, up) == NeighbourIn(DropLeadingZeros(x.ds), p, x.e, up)

\* whether a decimal is between two halves it compares with as below and above
Between(below, above, even) ==
  /\ below < 0 \/ (even /\ below = 0)
  /\ above < 0 \/ (even /\ above = 0)

\* whether the decimal c reads as the double between the halves lo and hi
ReadsBack(c, lo, hi, even) ==
  Between(CompareDecimals(lo, c), CompareDecimals(c, hi), even)

\* whether x - a <= b - x for digits of the same length
NearerDigits(xs, as, bs) == CompareDigits(SubDigits(xs, as), SubDigits(bs, xs)) <= 0

\* the same for digits at the same exponent
NearerPadded(xs, as, bs, n) == NearerDigits(PadTo(xs, n), PadTo(as, n), PadTo(bs, n))

\* the same for decimals, at the exponent e
NearerAt(x, a, b, e) ==
  NearerPadded(x.ds \o Zeros(x.e - e), a.ds \o Zeros(a.e - e), b.ds \o Zeros(b.e - e),
               1 + Len(b.ds) + b.e - e + Len(x.ds) + x.e - e)

\* whether the decimal a is as near to x as the decimal b is (a <= x <= b)
NearerBelow(x, a, b) == NearerAt(x, a, b, IF a.e < x.e THEN a.e ELSE x.e)

\* the one of the decimals a and b that reads back (ra, rb), the nearer to x
\* when both do
Chosen(x, a, b, ra, rb) ==
  [ok |-> ra \/ rb,
   c  |-> IF ra /\ rb THEN (IF NearerBelow(x, a, b) THEN a ELSE b)
          ELSE IF rb THEN b ELSE a]

\* the same for the two decimals a and b next to x
CandidateOf(x, lo, hi, even, a, b) ==
  Chosen(x, a, b, ReadsBack(a, lo, hi, even), ReadsBack(b, lo, hi, even))

\* the decimal of p significant digits that reads back as the double between
\* lo and hi, the nearer to x of the two next to x, and whether there is one
Candidate(x, lo, hi, even, p) ==
  CandidateOf(x, lo, hi, even, Neighbour(x, p, FALSE), Neighbour(x, p, TRUE))

\* the digits of the decimal s without the zeros at their end, and the place
\* of the point in them
ShortestOf(s) == [ds |-> DropTrailingZeros(s.ds), decpt |-> Len(s.ds) + s.e]

\* the shortest decimal between the halves lo and hi, the nearest to x
ShortestIn(x, lo, hi, even) ==
  ShortestOf(Candidate(x, lo, hi, even,
                       CHOOSE p \in 1..(IF Len(x.ds) < 17 THEN Len(x.ds) ELSE 17) :
                         /\ Candidate(x, lo, hi, even, p).ok
                         /\ \A r \in 1..(p - 1) : ~Candidate(x, lo, hi, even, r).ok).c)

\* the shortest decimal that reads back as the finite double d, the nearest
\* to d of them: the digits of repr(d) and the place decpt of the point in
\* them.  17 digits are always enough, and so are the digits of d itself.
Shortest(d) ==
  ShortestIn(ExactDecimal(d), HalfBelow(d), HalfAbove(d), d.m[Len(d.m)] = 0)

(***************************************************************************)
(* Python floats as the values of the model.  A float whose repr has at    *)
(* most three decimals and a magnitude below 10^6 is held as the integer   *)
(* 1000 * x (field n, field s empty), -0.0 excepted; any other float is    *)
(* held by its repr (field s).  A float has one form only.                 *)
(***************************************************************************)
Milli(n) == [n |-> n, s |-> ""]

\* whether 1000 * x = n is the form of the float x
InMilli(n) == n > 0 - Scale * Scale * Scale /\ n < Scale * Scale * Scale
ByRepr(s) == [n |-> 0, s |-> s]

\* the exponent of repr, of two digits at least
ExponentText(e) ==
  (IF e < 0 THEN "-" ELSE "+")
    \o (IF (IF e < 0 THEN 0 - e ELSE e) < 10 THEN "0" ELSE "")
    \o NatToStr(IF e < 0 THEN 0 - e ELSE e)

\* repr(x) for the float of digits ds (no zero at either end) with the point
\* after decpt digits
ReprText(neg, ds, decpt) ==
  (IF neg THEN "-" ELSE "")
    \o (IF decpt > 16 \/ decpt < 0 - 3
        THEN DigitStr(<< ds[1] >>)
               \o (IF Len(ds) > 1 THEN "." \o DigitStr(Tail(ds)) ELSE "")
               \o "e" \o ExponentText(decpt - 1)
        ELSE IF decpt <= 0 THEN "0." \o DigitStr(Zeros(0 - decpt) \o ds)
        ELSE IF decpt >= Len(ds) THEN DigitStr(ds \o Zeros(decpt - Len(ds))) \o ".0"
        ELSE DigitStr(SubSeq(ds, 1, decpt)) \o "." \o DigitStr(SubSeq(ds, decpt + 1, Len(ds))))

\* the float of the digits repr shows
FloatOfShortest(neg, ds, decpt) ==
  IF decpt <= 6 /\ decpt - Len(ds) >= 0 - 3
  THEN Milli((IF neg THEN 0 - 1 ELSE 1) * DigitSeqVal(ds \o Zeros(decpt - Len(ds) + 3)))
  ELSE ByRepr(ReprText(neg, ds, decpt))

\* the float of the digits s of a repr
FloatOfDigits(neg, s) == FloatOfShortest(neg, s.ds, s.decpt)

FloatOfDouble(d) ==
  IF d.k = "nan" THEN ByRepr("nan")
  ELSE IF d.k = "inf" THEN ByRepr(IF d.neg THEN "-inf" ELSE "inf")
  ELSE IF d.k = "zero" THEN (IF d.neg THEN ByRepr("-0.0") ELSE Milli(0))
  ELSE FloatOfDigits(d.neg, Shortest(d))

\* the float nearest to ds * 10^e, ds without a zero at either end and the
\* point after decpt digits.  A decimal of at most 15 significant digits
\* inside the normal range is the repr of its own float.
FloatOfStripped(neg, ds, e, decpt) ==
  IF ds # << >> /\ Len(ds) <= 15 /\ decpt <= 290 /\ decpt >= 0 - 290
  THEN FloatOfShortest(neg, ds, decpt)
  ELSE FloatOfDouble(IF ds = << >> \/ decpt < 0 - 330 THEN ZeroDouble(neg)
                     ELSE IF decpt > 310 THEN InfDouble(neg)
                     ELSE DoubleOfDecimal(neg, ds, e))

\* the float nearest to d1 * 10^e0, ds being d1 without the zeros at its end
FloatOfTrimmed(neg, d1, ds, e0) ==
  FloatOfStripped(neg, ds, e0 + Len(d1) - Len(ds), Len(d1) + e0)

\* the float nearest to d1 * 10^e0, d1 without a zero in front
FloatOfLeading(neg, d1, e0) == FloatOfTrimmed(neg, d1, DropTrailingZeros(d1), e0)

\* the float nearest to ds0 * 10^e0
FloatOfDecimal(neg, ds0, e0) == FloatOfLeading(neg, DropLeadingZeros(ds0), e0)

\* digits with single underscores between them
IsDigitPart(t) ==
  /\ t # ""
  /\ \A i \in 1..Len(t) :
       \/ IsDigit(CharAt(t, i))
       \/ /\ CharAt(t, i) = "_"
          /\ i > 1 /\ i < Len(t)
          /\ IsDigit(CharAt(t, i - 1)) /\ IsDigit(CharAt(t, i + 1))

\* the first e or E of s, 0 for none
FindExponent(s) ==
  LET a == Find(s, "e", 1)
      b == Find(s, "E", 1)
  IN IF a = 0 THEN b ELSE IF b = 0 THEN a ELSE IF a < b THEN a ELSE b

\* the value of the digits of an exponent, 99999 for whatever is larger
ExponentVal(t) ==
  LET ds == DropLeadingZeros(DigitSeq(t))
  IN IF Len(ds) > 5 THEN 99999 ELSE DigitSeqVal(ds)

\* the white space float() skips at both ends of its text
FloatSpace == { "\t", "\n", "", "\f", "\r", " ", "", " " }

RECURSIVE FloatLStrip(_)
FloatLStrip(s) ==
  IF s # "" /\ CharAt(s, 1) \in FloatSpace THEN FloatLStrip(Slice(s, 2, Len(s))) ELSE s

RECURSIVE FloatRStrip(_)
FloatRStrip(s) ==
  IF s # "" /\ CharAt(s, Len(s)) \in FloatSpace
  THEN FloatRStrip(Slice(s, 1, Len(s) - 1)) ELSE s

\* a text without the sign in front of it
Unsigned(t) ==
  IF t # "" /\ CharAt(t, 1) \in {"-", "+"} THEN Slice(t, 2, Len(t)) ELSE t

\* float() raising ValueError
ParseFailure == [ok |-> FALSE, n |-> 0, s |-> ""]

\* float() returning the float f
Parsed(f) == [ok |-> TRUE, n |-> f.n, s |-> f.s]

\* the float of the integer digits id and the fraction digits fd at the
\* exponent ev
ParseDigits(neg, id, fd, ev) == Parsed(FloatOfDecimal(neg, id \o fd, ev - Len(fd)))

\* float() of the integer part ip, the fraction part fp and, when the text
\* has an exponent, its digits edig and sign
ParseFields(neg, ip, fp, hasexp, eneg, edig) ==
  IF /\ ip = "" \/ IsDigitPart(ip)
     /\ fp = "" \/ IsDigitPart(fp)
     /\ ip # "" \/ fp # ""
     /\ ~hasexp \/ IsDigitPart(edig)
  THEN ParseDigits(neg, DigitSeq(Replace(ip, "_", "")), DigitSeq(Replace(fp, "_", "")),
                   IF hasexp
                   THEN (IF eneg THEN 0 - 1 ELSE 1) * ExponentVal(Replace(edig, "_", ""))
                   ELSE 0)
  ELSE ParseFailure

\* float() of the parts ps of the mantissa around its points and of the
\* text expo after the exponent letter
ParseParts(neg, ps, hasexp, expo) ==
  IF Len(ps) > 2 THEN ParseFailure
  ELSE ParseFields(neg, ps[1], IF Len(ps) = 2 THEN ps[2] ELSE "", hasexp,
                   expo # "" /\ CharAt(expo, 1) = "-", Unsigned(expo))

\* float() of a number whose exponent letter is at x, 0 for none
ParseNumber(neg, body, x) ==
  ParseParts(neg, Split(IF x = 0 THEN body ELSE Slice(body, 1, x - 1), "."), x # 0,
             IF x = 0 THEN "" ELSE Slice(body, x + 1, Len(body)))

\* float() of the text body after the sign, low the text in lower case when
\* it has the length of a name
ParseBody(neg, body, low) ==
  IF low \in {"inf", "infinity"}
  THEN [ok |-> TRUE, n |-> 0, s |-> IF neg THEN "-inf" ELSE "inf"]
  ELSE IF low = "nan" THEN [ok |-> TRUE, n |-> 0, s |-> "nan"]
  ELSE ParseNumber(neg, body, FindExponent(body))

\* float() of the text body after the sign
ParseUnsigned(neg, body) ==
  ParseBody(neg, body, IF Len(body) \in {3, 8} THEN Lower(body) ELSE "")

\* float() of a text without white space around it
ParseStripped(s) == ParseUnsigned(s # "" /\ CharAt(s, 1) = "-", Unsigned(s))

\* float(s0): [ok |-> FALSE] stands for ValueError.  The text is
\* [sign] (inf | infinity | nan) in any case, or
\* [sign] (digits [. [digits]] | . digits) [(e | E) [sign] digits]
ParseFloat(s0) == ParseStripped(FloatRStrip(FloatLStrip(s0)))

\* the double nearest to the number of integer digits id and fraction
\* digits fd at the exponent ev
DoubleOfFraction(neg, id, fd, ev) == DoubleOfDecimal(neg, id \o fd, ev - Len(fd))

\* the double of the parts ps of a mantissa around its point
DoubleOfParts(neg, ps, ev) ==
  DoubleOfFraction(neg, DigitSeq(ps[1]), IF Len(ps) = 2 THEN DigitSeq(ps[2]) ELSE << >>, ev)

\* the double of a repr whose exponent letter is at x, 0 for none
DoubleOfRepr(neg, body, x) ==
  DoubleOfParts(neg, Split(IF x = 0 THEN body ELSE Slice(body, 1, x - 1), "."),
                IF x = 0 THEN 0
                ELSE (IF CharAt(body, x + 1) = "-" THEN 0 - 1 ELSE 1)
                       * DigitsVal(Slice(body, x + 2, Len(body))))

\* the double of the repr r of a finite float
DoubleOfText(r) == DoubleOfRepr(CharAt(r, 1) = "-", Unsigned(r), Find(Unsigned(r), "e", 1))

RECURSIVE RStripZeros(_)
RStripZeros(f) ==
  IF Len(f) > 1 /\ CharAt(f, Len(f)) = "0" THEN RStripZeros(Slice(f, 1, Len(f) - 1)) ELSE f

\* repr(x) of the float 1000 * x = n
FormatFloat(n) ==
  LET mag  == IF n < 0 THEN 0 - n ELSE n
      frac == mag % Scale
      f3   == Slice("00", 1, 3 - Len(NatToStr(frac))) \o NatToStr(frac)
  IN (IF n < 0 THEN "-" ELSE "") \o NatToStr(mag \div Scale) \o "." \o RStripZeros(f3)

\* repr(x), as an f-string prints a float
Repr(f) == IF f.s = "" THEN FormatFloat(f.n) ELSE f.s

\* the double of a float of the model
DoubleOfFloat(f) ==
  IF f.s = "nan" THEN NanDouble
  ELSE IF f.s = "inf" THEN InfDouble(FALSE)
  ELSE IF f.s = "-inf" THEN InfDouble(TRUE)
  ELSE DoubleOfText(Repr(f))

\* x - y
FloatSub(x, y) == FloatOfDouble(SubDouble(DoubleOfFloat(x), DoubleOfFloat(y)))

\* round(x, 2) of the double d, e the decimal it is exactly
RoundExact(x, d, e) ==
  IF e.e >= 0 - 2 THEN x
  ELSE FloatOfDecimal(d.neg, HalfEven(e.ds, 0 - e.e - 2), 0 - 2)

\* round(x, 2) of the double d of the float x
RoundDouble(x, d) == IF d.k # "finite" THEN x ELSE RoundExact(x, d, ExactDecimal(d))

\* round(x, 2): the float nearest to the decimal of two places nearest to the
\* double, an exact half going to the even hundredth.  With three decimals
\* whose last is not 5 the double is on the side of the half its decimal is.
Round2(x) ==
  IF x.s = "" /\ x.n % 10 # 5 /\ InMilli(10 * ((x.n + 5) \div 10))
  THEN LET h == 10 * ((x.n + 5) \div 10)
       IN IF h = 0 /\ x.n < 0 THEN ByRepr("-0.0") ELSE Milli(h)
  ELSE RoundDouble(x, DoubleOfFloat(x))

(***************************************************************************)
(* Python values and dicts                                                 *)
(***************************************************************************)
Num(n) == [t |-> "num", n |-> n, s |-> ""]
Str(s) == [t |-> "str", n |-> 0, s |-> s]

\* a float as a value
Float(f) == [t |-> "num", n |-> f.n, s |-> f.s]

IsNum(v) == v.t = "num"

Has(d, k) == \E i \in 1..Len(d) : d[i].k = k

\* d.get(k, default)
Get(d, k, default) ==
  IF Has(d, k) THEN d[CHOOSE i \in 1..Len(d) : d[i].k = k].v ELSE default

\* d[k] = v : an existing key keeps its position, a new key goes last
Put(d, k, v) ==
  IF Has(d, k)
  THEN [i \in 1..Len(d) |-> IF d[i].k = k THEN [k |-> k, v |-> v] ELSE d[i]]
  ELSE Append(d, [k |-> k, v |-> v])

(***************************************************************************)
(* utils.py                                                                *)
(***************************************************************************)
\* the float p when float() returned it, the stripped text of the cell when
\* it raised ValueError
FloatOrText(p, value) == IF p.ok THEN Float(p) ELSE Str(Strip(value))

\* the conversion without the replacement of the commas
clean_decimal_points(value) == FloatOrText(ParseFloat(Strip(value)), value)

\* clean_decimal(value): a float when the text parses once its commas are
\* points, the stripped text otherwise
clean_decimal(value) ==
  FloatOrText(ParseFloat(Strip(Replace(value, ",", "."))), value)

\* the substitutions of normalize_unit, in the order of the chain
UnitSubstitutions ==
  << << "Âµ", "µ" >>,
     << "dBμV", "dBµV" >>,
     << "Lim.Avg", "Limit Avg" >>,
     << "Lim.Peak", "Limit Peak" >>,
     << "Lim.Q-Peak", "Limit Q-Peak" >>,
     << "CISPR.AVG", "CISPR Avg" >>,
     << "Peak-Lim.Peak", "Peak-Limit Peak" >>,
     << "Q-Peak-Lim.Q-Peak", "Q-Peak-Limit Q-Peak" >>,
     << "CISPR.AVG-Lim.Avg", "CISPR.AVG-Limit Avg" >> >>

RECURSIVE ApplySubstitutions(_, _)
ApplySubstitutions(s, i) ==
  IF i > Len(UnitSubstitutions) THEN s
  ELSE ApplySubstitutions(Replace(s, UnitSubstitutions[i][1], UnitSubstitutions[i][2]), i + 1)

normalize_unit(unit) == ApplySubstitutions(unit, 1)

\* the rules with the limit labels in the spelling of the canonical field
priority_mappings_limite ==
  << << "cispr avg-limit avg", "Margin (dB)" >>,
     << "peak-limit peak", "Margin (dB)" >>,
     << "q-peak-limit q-peak", "Margin (dB)" >>,
     << "peak-limit", "Margin (dB)" >>,
     << "cispr-limit", "Margin (dB)" >>,
     << "q-peak-limit", "Margin (dB)" >>,
     << "limit peak", "Limite Peak (dBµV/m)" >>,
     << "limit avg", "Limite Avg (dBµV/m)" >>,
     << "limit q-peak", "Limite Q-Peak (dBµV/m)" >>,
     << "cispr avg", "CISPR.AVG (dBµV/m)" >>,
     << "q-peak", "Q-Peak (dBµV/m)" >>,
     << "peak", "Peak (dBµV/m)" >>,
     << "cispr", "CISPR.AVG (dBµV/m)" >>,
     << "frequency", "Frequency (MHz)" >>,
     << "detector", "Detector type" >>,
     << "comment", "Comment" >>,
     << "applied limit", "Applied limit" >>,
     << "margin", "Margin (dB)" >>,
     << "antenna position", "Antenna Position" >>,
     << "polarization", "Polarization" >> >>

\* the ordered rules of normalize_header
priority_mappings ==
  << << "cispr avg-limit avg", "Margin (dB)" >>,
     << "peak-limit peak", "Margin (dB)" >>,
     << "q-peak-limit q-peak", "Margin (dB)" >>,
     << "peak-limit", "Margin (dB)" >>,
     << "cispr-limit", "Margin (dB)" >>,
     << "q-peak-limit", "Margin (dB)" >>,
     << "limit peak", "Limit Peak (dBµV/m)" >>,
     << "limit avg", "Limit Avg (dBµV/m)" >>,
     << "limit q-peak", "Limit Q-Peak (dBµV/m)" >>,
     << "cispr avg", "CISPR.AVG (dBµV/m)" >>,
     << "q-peak", "Q-Peak (dBµV/m)" >>,
     << "peak", "Peak (dBµV/m)" >>,
     << "cispr", "CISPR.AVG (dBµV/m)" >>,
     << "frequency", "Frequency (MHz)" >>,
     << "detector", "Detector type" >>,
     << "comment", "Comment" >>,
     << "applied limit", "Applied limit" >>,
     << "margin", "Margin (dB)" >>,
     << "antenna position", "Antenna Position" >>,
     << "polarization", "Polarization" >> >>

\* the label of the last rule from i on whose pattern occurs, not of the first
LastMapping(h, h_clean, i) ==
  LET hits == { j \in i..Len(priority_mappings) : Contains(h_clean, priority_mappings[j][1]) }
  IN IF hits = {} THEN h
     ELSE priority_mappings[CHOOSE j \in hits : \A k \in hits : k <= j][2]

\* normalize_header(h): the label of the first rule whose pattern occurs in the
\* lower-cased header, the header itself when none does
RECURSIVE FirstMapping(_, _, _)
FirstMapping(h, h_clean, i) ==
  IF i > Len(priority_mappings) THEN h
  ELSE IF Contains(h_clean, priority_mappings[i][1]) THEN priority_mappings[i][2]
  ELSE FirstMapping(h, h_clean, i + 1)

normalize_header(h) == FirstMapping(h, Lower(Strip(h)), 1)

(***************************************************************************)
(* parser_mod.py: configuration discovery                                  *)
(***************************************************************************)
\* re.match(r'^CRE2-\d{4}-TP\d{3}-\d{2}$', s); $ also matches before a final newline
MatchesSampleId(s) ==
  LET t == IF s # "" /\ CharAt(s, Len(s)) = "\n" THEN Slice(s, 1, Len(s) - 1) ELSE s
  IN /\ Len(t) = 18
     /\ SubSeq(t, 1, 5) = "CRE2-"
     /\ AllDigits(SubSeq(t, 6, 9))
     /\ SubSeq(t, 10, 12) = "-TP"
     /\ AllDigits(SubSeq(t, 13, 15))
     /\ SubSeq(t, 16, 16) = "-"
     /\ AllDigits(SubSeq(t, 17, 18))

\* the tests of the row loop without the filter on the Sample ID
RowDeclaresAny(row) ==
  /\ Len(row) >= 2
  /\ Contains(Lower(Strip(row[1])), "name test:")
  /\ Strip(row[2]) # ""
  /\ Len(Split(Strip(row[2]), "_")) >= 2

\* the body of the row loop of extract_all_configurations: whether the row
\* yields a configuration record
RowDeclares(row) ==
  /\ Len(row) >= 2
  /\ Contains(Lower(Strip(row[1])), "name test:")
  /\ Strip(row[2]) # ""
  /\ Len(Split(Strip(row[2]), "_")) >= 2
  /\ MatchesSampleId(Split(Strip(row[2]), "_")[1])

\* the record with the second segment alone as config_name
RowConfigurationSecond(row) ==
  LET value == Strip(row[2])
      parts == Split(value, "_")
  IN [sample_id |-> parts[1], config_name |-> parts[2], full_name |-> value]

\* the record appended for a row that yields one
RowConfiguration(row) ==
  LET value == Strip(row[2])
      parts == Split(value, "_")
  IN [sample_id |-> parts[1], config_name |-> Join(Tail(parts), "_"), full_name |-> value]

\* the rows of a block that yield a record, in row order
RECURSIVE DeclaringRows(_, _)
DeclaringRows(table, r) ==
  IF r > Len(table) THEN << >>
  ELSE (IF RowDeclares(table[r]) THEN << r >> ELSE << >>) \o DeclaringRows(table, r + 1)

\* the (block, row) positions that yield a record, in document order
RECURSIVE ConfigPositions(_, _)
ConfigPositions(d, b) ==
  IF b > Len(d) THEN << >>
  ELSE LET rs == DeclaringRows(d[b], 1)
       IN [i \in 1..Len(rs) |-> << b, rs[i] >>] \o ConfigPositions(d, b + 1)

\* extract_all_configurations(doc)
extract_all_configurations(d) ==
  LET ps == ConfigPositions(d, 1)
  IN [i \in 1..Len(ps) |-> RowConfiguration(d[ps[i][1]][ps[i][2]])]

\* the grouping with every configuration put at the head of its group
RECURSIVE GroupBySampleFirst(_, _)
GroupBySampleFirst(configs, groups) ==
  IF configs = << >> THEN groups
  ELSE LET c == Head(configs)
       IN GroupBySampleFirst(Tail(configs),
            Put(groups, c.sample_id, << c >> \o Get(groups, c.sample_id, << >>)))

\* sample_groups of extract_data: the configurations grouped by sample_id, the
\* groups in order of first appearance
RECURSIVE GroupBySample(_, _)
GroupBySample(configs, groups) ==
  IF configs = << >> THEN groups
  ELSE LET c == Head(configs)
       IN GroupBySample(Tail(configs),
            Put(groups, c.sample_id, Append(Get(groups, c.sample_id, << >>), c)))

(***************************************************************************)
(* parser_mod.py: association of a configuration with measurement tables   *)
(***************************************************************************)
RECURSIVE FlattenCells(_)
FlattenCells(table) ==
  IF table = << >> THEN << >> ELSE Head(table) \o FlattenCells(Tail(table))

\* " ".join([cell.text for row in table.rows for cell in row.cells])
TableText(table) == Join(FlattenCells(table), " ")

\* the test of the target search on one table
MentionsConfiguration(table, config_name) ==
  /\ Contains(Lower(TableText(table)), "name test:")
  /\ Contains(TableText(table), config_name)

\* target_table_idx: the first table that passes the test, 0 for None
\* (the model counts blocks from 1, the code from 0)
RECURSIVE FirstMention(_, _, _)
FirstMention(d, config_name, i) ==
  IF i > Len(d) THEN 0
  ELSE IF MentionsConfiguration(d[i], config_name) THEN i
  ELSE FirstMention(d, config_name, i + 1)

TargetTableIdx(d, config_name) == FirstMention(d, config_name, 1)

\* check_headers of a table that has a first row
CheckHeaders(table) == [i \in 1..Len(table[1]) |-> Strip(table[1][i])]

ParamsKeywords == { "Sample:", "Project:", "Operator:", "Test Configuration:", "Operating mode:" }

MeasurementKeywords == { "Frequency", "CISPR", "Peak", "Q-Peak", "Lim.Avg", "Lim.Q-Peak", "Lim.Peak" }

AnyContains(headers, keywords) ==
  \E i \in 1..Len(headers) : \E kw \in keywords : Contains(headers[i], kw)

is_params_table(table) == AnyContains(CheckHeaders(table), ParamsKeywords)

is_measurement_table(table) == AnyContains(CheckHeaders(table), MeasurementKeywords)

\* the branch the loop body takes on a table that has a first row
ScanBranch(table) ==
  IF is_params_table(table) THEN "params"
  ELSE IF is_measurement_table(table) THEN "measurement"
  ELSE "other"

(***************************************************************************)
(* parser_mod.py: test parameters of a configuration                       *)
(***************************************************************************)
\* a nested dict as the value of a key
Dict(d) == [t |-> "dict", n |-> 0, s |-> "", d |-> d]

\* the words of s[i..].split(): the pieces between white space, none empty;
\* w is the word under way
RECURSIVE WordsFrom(_, _, _)
WordsFrom(s, i, w) ==
  IF i > Len(s) THEN (IF w = "" THEN << >> ELSE << w >>)
  ELSE IF IsSpace(CharAt(s, i))
       THEN (IF w = "" THEN << >> ELSE << w >>) \o WordsFrom(s, i + 1, "")
       ELSE WordsFrom(s, i + 1, w \o CharAt(s, i))

\* s.split()
Words(s) == WordsFrom(s, 1, "")

\* normalize_text(s); the zero width space it removes is a character no text
\* of the model holds
normalize_text(s) ==
  LET a == Replace(s, " ", " ")
      b == Replace(a, "\t", " ")
      c == Replace(b, "\r", " ")
      d == Replace(c, "\n", " ")
  IN Strip(Join(Words(d), " "))

\* normalize_key(k)
normalize_key(k) == Strip(Replace(Lower(normalize_text(k)), ":", ""))

\* s.split(sep, 1), sep in s
SplitOnce(s, sep) ==
  LET h == Find(s, sep, 1)
  IN << Slice(s, 1, h - 1), Slice(s, h + Len(sep), Len(s)) >>

\* s.rstrip(",")
RECURSIVE RStripCommas(_)
RStripCommas(s) ==
  IF s # "" /\ CharAt(s, Len(s)) = "," THEN RStripCommas(Slice(s, 1, Len(s) - 1)) ELSE s

TestParamsKeywords ==
  { "sample", "project", "operator", "test configuration", "operating mode",
    "conclusion", "rbw", "span", "reference level" }

\* the cells of a row, normalized
NormalizedCells(row) == [i \in 1..Len(row) |-> normalize_text(row[i])]

\* table_text of the search for candidate tables
CandidateText(table) == Lower(Join(NormalizedCells(FlattenCells(table)), " "))

\* whether a table is a candidate table
IsCandidateTable(table) ==
  \E kw \in TestParamsKeywords : Contains(CandidateText(table), kw)

\* key_text and value_text of a row that has a cell with text
KeyValueOf(cells) ==
  IF Len(cells) >= 2 /\ Strip(cells[2]) # ""
  THEN [key |-> cells[1], value |-> cells[2]]
  ELSE IF Contains(cells[1], ":")
       THEN [key |-> SplitOnce(cells[1], ":")[1], value |-> SplitOnce(cells[1], ":")[2]]
       ELSE LET others == { j \in 2..Len(cells) : Strip(cells[j]) # "" }
            IN [key |-> cells[1],
                value |-> IF others = {} THEN ""
                          ELSE cells[CHOOSE j \in others : \A i \in others : j <= i]]

\* the "Sample ID" of the record after a row whose key holds "sample"
SetSampleId(test_params, value_norm) == Put(test_params, "Sample ID", Str(value_norm))

\* the if/elif chain that stores the value of a row under its key:
\* [raised |-> TRUE] stands for the IndexError of parts[1]
StoreParam(test_params, key_norm, value_norm) ==
  LET Ok(tp) == [raised |-> FALSE, params |-> tp]
      Has2(a, b) == Contains(key_norm, a) \/ Contains(key_norm, b)
  IN IF Contains(key_norm, "sample") THEN Ok(SetSampleId(test_params, value_norm))
     ELSE IF Contains(key_norm, "project") THEN Ok(Put(test_params, "Project", Str(value_norm)))
     ELSE IF Contains(key_norm, "operator") THEN Ok(Put(test_params, "Operator", Str(value_norm)))
     ELSE IF Has2("test configuration", "test cfg")
       THEN Ok(Put(test_params, "Test Configuration", Str(value_norm)))
     ELSE IF Contains(key_norm, "operating mode") \/ Find(key_norm, "mode", 1) = 1
       THEN IF Contains(Lower(value_norm), "conclusion")
            THEN IF ~Contains(value_norm, "conclusion")
                 THEN [raised |-> TRUE, params |-> test_params]
                 ELSE LET parts == SplitOnce(value_norm, "conclusion")
                          mode  == RStripCommas(Strip(Replace(parts[1], ":", "")))
                          rest  == Strip(Replace(parts[2], ":", ""))
                          tp    == Put(test_params, "Operating mode", Str(mode))
                      IN Ok(IF rest # "" THEN Put(tp, "Conclusion", Str(rest)) ELSE tp)
            ELSE Ok(Put(test_params, "Operating mode", Str(value_norm)))
     ELSE IF Contains(key_norm, "conclusion") THEN Ok(Put(test_params, "Conclusion", Str(value_norm)))
     ELSE IF Contains(key_norm, "rbw") THEN Ok(Put(test_params, "RBW", Str(value_norm)))
     ELSE IF Contains(key_norm, "span") THEN Ok(Put(test_params, "Span", Str(value_norm)))
     ELSE IF Contains(key_norm, "reference") /\ Contains(key_norm, "level")
       THEN Ok(Put(test_params, "Reference level", Str(value_norm)))
     ELSE Ok(Put(test_params, "OtherParams",
                 Dict(Put(Get(test_params, "OtherParams", Dict(<< >>)).d,
                          key_norm, Str(value_norm)))))

\* the loop over the rows of a candidate table, from row r on
RECURSIVE ParamRows(_, _, _)
ParamRows(table, r, acc) ==
  IF r > Len(table) \/ acc.raised THEN acc
  ELSE LET cells == NormalizedCells(table[r])
       IN IF \A i \in 1..Len(cells) : cells[i] = "" THEN ParamRows(table, r + 1, acc)
          ELSE LET kv == KeyValueOf(cells)
                   value_norm == normalize_text(kv.value)
               IN IF value_norm = "" THEN ParamRows(table, r + 1, acc)
                  ELSE LET st == StoreParam(acc.params, normalize_key(kv.key), value_norm)
                       IN ParamRows(table, r + 1,
                            [raised |-> st.raised, params |-> st.params, found |-> TRUE])

\* the fallback pass over one cell: a "Key: Value" text fills a missing field
FallbackCell(test_params, text) ==
  LET txt == normalize_text(text)
  IN IF ~Contains(txt, ":") THEN test_params
     ELSE LET k == normalize_key(SplitOnce(txt, ":")[1])
              v == normalize_text(SplitOnce(txt, ":")[2])
              Fill(word, field) == Contains(k, word) /\ ~Has(test_params, field)
          IN IF v = "" THEN test_params
             ELSE IF Fill("project", "Project") THEN Put(test_params, "Project", Str(v))
             ELSE IF Fill("operator", "Operator") THEN Put(test_params, "Operator", Str(v))
             ELSE IF Fill("test configuration", "Test Configuration")
               THEN Put(test_params, "Test Configuration", Str(v))
             ELSE IF Fill("operating mode", "Operating mode")
               THEN Put(test_params, "Operating mode", Str(v))
             ELSE IF Fill("conclusion", "Conclusion") THEN Put(test_params, "Conclusion", Str(v))
             ELSE test_params

\* the fallback pass over the cells of all the tables
RECURSIVE Fallback(_, _)
Fallback(test_params, cells) ==
  IF cells = << >> THEN test_params
  ELSE Fallback(FallbackCell(test_params, Head(cells)), Tail(cells))

RECURSIVE AllCells(_)
AllCells(d) == IF d = << >> THEN << >> ELSE FlattenCells(Head(d)) \o AllCells(Tail(d))

\* the loop over the candidate tables, from table t on: it returns after the
\* first candidate table that gave a value
RECURSIVE ParamTables(_, _, _)
ParamTables(d, t, acc) ==
  IF t > Len(d) THEN [raised |-> FALSE, params |-> Fallback(acc.params, AllCells(d))]
  ELSE IF ~IsCandidateTable(d[t]) THEN ParamTables(d, t + 1, acc)
  ELSE LET after == ParamRows(d[t], 1, acc)
       IN IF after.raised THEN [raised |-> TRUE, params |-> after.params]
          ELSE IF after.found THEN [raised |-> FALSE, params |-> after.params]
          ELSE ParamTables(d, t + 1, after)

\* extract_test_params_for_configuration(doc, sample_id, config_name)
extract_test_params_for_configuration(d, sample_id, config_name) ==
  ParamTables(d, 1,
    [raised |-> FALSE, found |-> FALSE,
     params |-> << [k |-> "Sample ID", v |-> Str(sample_id)],
                   [k |-> "Configuration", v |-> Str(config_name)] >>])

(***************************************************************************)
(* parser_mod.py: row extraction                                           *)
(***************************************************************************)
\* the if/elif chain that maps one column of a data row into row_dict, with
\* h_low the header in lower case and cleaned the cell as clean_decimal
\* gives it
MapCell(row_dict, h, h_low, val, cleaned) ==
  LET lim   == Contains(h_low, "lim")
      avg   == Contains(h_low, "avg")
      peak  == Contains(h_low, "peak")
      qpeak == Contains(h_low, "q-peak")
      dash  == Contains(h_low, "-")
      Measure(det) ==
        Put(Put(Put(row_dict, "Mesure (dBµV/m)", cleaned),
                "Detector type", Str(det)), "Section", Str(det))
  IN IF Contains(h_low, "frequency") THEN Put(row_dict, "Frequency (MHz)", cleaned)
     ELSE IF h_low = "sr" \/ Strip(h_low) = "sr" THEN Put(row_dict, "S R", cleaned)
     ELSE IF Contains(h_low, "cispr") /\ avg /\ ~lim THEN Measure("CISPR.AVG")
     ELSE IF qpeak /\ ~lim THEN Measure("Q-Peak")
     ELSE IF peak /\ ~lim /\ ~qpeak /\ ~dash THEN Measure("Peak")
     ELSE IF (lim \/ Contains(h_low, "limit")) /\ (avg \/ peak \/ qpeak)
          THEN Put(row_dict, "Limite (dBµV/m)", cleaned)
     ELSE IF Contains(h_low, "margin") \/ (dash /\ (peak \/ avg \/ qpeak))
          THEN Put(row_dict, "Margin (dB)", cleaned)
     ELSE IF Contains(h_low, "pol") THEN Put(row_dict, "Polarization", Str(val))
     ELSE IF Contains(h_low, "corr") THEN Put(row_dict, "Correction (dB)", cleaned)
     ELSE Put(row_dict, h, Str(val))

\* one column of a data row: h_low = h.lower() and clean_decimal(val)
MapColumn(row_dict, h, val) == MapCell(row_dict, h, Lower(h), val, clean_decimal(val))

RECURSIVE MapColumns(_, _, _, _)
MapColumns(row_dict, headers, values, i) ==
  IF i > Len(headers) THEN row_dict
  ELSE MapColumns(MapColumn(row_dict, headers[i], IF i <= Len(values) THEN values[i] ELSE ""),
                  headers, values, i + 1)

\* the headers of extract_measurements_from_table
NormalizedHeaders(table) ==
  [i \in 1..Len(table[1]) |-> normalize_header(normalize_unit(Strip(table[1][i])))]

HeaderKeywords == { "frequency", "cispr", "peak", "q-peak", "lim", "margin" }

\* the dict built for one data row
RowDict(headers, row, sample_id) ==
  MapColumns(<< [k |-> "Sample ID", v |-> Str(sample_id)],
                [k |-> "Comment", v |-> Str("-")],
                [k |-> "Section", v |-> Str("-")] >>,
             headers, [i \in 1..Len(row) |-> Strip(row[i])], 1)

RECURSIVE DataRows(_, _, _, _)
DataRows(table, headers, sample_id, r) ==
  IF r > Len(table) THEN << >>
  ELSE (IF \A i \in 1..Len(table[r]) : Strip(table[r][i]) = ""
        THEN << >>
        ELSE << RowDict(headers, table[r], sample_id) >>)
       \o DataRows(table, headers, sample_id, r + 1)

\* extract_measurements_from_table(table, sample_id)
extract_measurements_from_table(table, sample_id) ==
  IF Len(table) < 2 THEN << >>
  ELSE LET headers == NormalizedHeaders(table)
       IN IF ~\E i \in 1..Len(headers) : \E kw \in HeaderKeywords : Contains(Lower(headers[i]), kw)
          THEN << >>
          ELSE DataRows(table, headers, sample_id, 2)

(***************************************************************************)
(* parser_mod.py: deduplication                                            *)
(***************************************************************************)
\* how an f-string prints a value
FormatValue(v) == IF IsNum(v) THEN Repr(v) ELSE v.s

\* the key f"{freq}_{mes}" of a measure
DedupKey(m) ==
  FormatValue(Get(m, "Frequency (MHz)", Str(""))) \o "_"
    \o FormatValue(Get(m, "Mesure (dBµV/m)", Str("")))

\* the loop turn without the test of the key
AppendAlways(measurements, measure) == Append(measurements, measure)

\* the loop turn that puts a new measure in front of the list
InsertIfNew(measurements, measure) ==
  IF \E i \in 1..Len(measurements) : DedupKey(measurements[i]) = DedupKey(measure)
  THEN measurements
  ELSE << measure >> \o measurements

\* one turn of the loop over table_measurements
AppendIfNew(measurements, measure) ==
  IF \E i \in 1..Len(measurements) : DedupKey(measurements[i]) = DedupKey(measure)
  THEN measurements
  ELSE Append(measurements, measure)

\* the loop that adds the measures of one table to the list of the configuration
RECURSIVE Accumulate(_, _)
Accumulate(measurements, table_measurements) ==
  IF table_measurements = << >> THEN measurements
  ELSE Accumulate(AppendIfNew(measurements, Head(table_measurements)), Tail(table_measurements))

(***************************************************************************)
(* rules.py                                                                *)
(***************************************************************************)
\* keys = {k.lower(): k for k in m.keys()}
RECURSIVE LowerKeys(_, _)
LowerKeys(m, acc) ==
  IF m = << >> THEN acc
  ELSE LowerKeys(Tail(m), Put(acc, Lower(Head(m).k), Str(Head(m).k)))

\* next((keys[k] for k in keys if a in k or b in k), None): "" stands for None
FirstKeyWith(keys, a, b) ==
  LET hits == { i \in 1..Len(keys) : Contains(keys[i].k, a) \/ Contains(keys[i].k, b) }
  IN IF hits = {} THEN "" ELSE keys[CHOOSE i \in hits : \A j \in hits : i <= j].v.s

col_mesure(m) == FirstKeyWith(LowerKeys(m, << >>), "cispr", "mesure")

col_limite(m) == FirstKeyWith(LowerKeys(m, << >>), "limit", "limite")

\* float(v) of a dict value: [ok |-> FALSE] stands for the exception
ToFloat(v) == IF IsNum(v) THEN [ok |-> TRUE, n |-> v.n, s |-> v.s] ELSE ParseFloat(v.s)

\* marge = round(limite - mesure, 2).  For floats of three decimals whose
\* decimal difference does not end in 5 the difference of the doubles is on
\* the side of the half the decimal difference is, and round gives the
\* hundredth next to it; a difference that rounds to zero keeps its sign.
MargeOf(limite, mesure) ==
  IF /\ limite.s = "" /\ mesure.s = "" /\ (limite.n - mesure.n) % 10 # 5
     /\ InMilli(10 * ((limite.n - mesure.n + 5) \div 10))
  THEN LET h == 10 * ((limite.n - mesure.n + 5) \div 10)
       IN IF h = 0 /\ limite.n < mesure.n THEN ByRepr("-0.0") ELSE Milli(h)
  ELSE Round2(FloatSub(limite, mesure))

\* the try block of process_data on float(m[col_mesure]) and
\* float(m[col_limite]): the rounded difference, or the margin existing of
\* the except branch when one of them raised
MargeFrom(mesure, limite, existing) ==
  IF mesure.ok /\ limite.ok THEN Float(MargeOf(limite, mesure)) ELSE existing

\* the margin of the measure m with the columns cm and cl, existing where
\* there is none to compute
MargeWith(m, cm, cl, existing) ==
  IF cm # "" /\ cl # ""
  THEN MargeFrom(ToFloat(Get(m, cm, Str(""))), ToFloat(Get(m, cl, Str(""))), existing)
  ELSE existing

\* the margin without the fallback on the margin the measure carries
MargeOrNA(m) == MargeWith(m, col_mesure(m), col_limite(m), Str("N/A"))

\* the margin process_data gives one measure
Marge(m) ==
  MargeWith(m, col_mesure(m), col_limite(m), Get(m, "Margin (dB)", Str("N/A")))

\* x >= 0 for a float: not for nan, so for -0.0
NotNegative(f) ==
  IF f.s = "" THEN f.n >= 0 ELSE f.s # "nan" /\ (f.s = "-0.0" \/ CharAt(f.s, 1) # "-")

\* the verdict with NOK for whatever is not a margin >= 0
ConformityBySign(marge) == IF IsNum(marge) /\ NotNegative(marge) THEN "OK" ELSE "NOK"

\* the verdict of a margin
ConformityOf(marge) ==
  IF IsNum(marge) /\ NotNegative(marge) THEN "OK"
  ELSE IF IsNum(marge) THEN "NOK"
  ELSE "-"

\* new_row of process_data
ProcessRow(m) ==
  LET marge == Marge(m)
  IN Put(Put(Put(m, "Margin (dB)", marge), "Overtaking (dB)", Str("-")),
         "Conformity", Str(ConformityOf(marge)))

\* process_data(measurements)
process_data(measurements) == [i \in 1..Len(measurements) |-> ProcessRow(measurements[i])]

\* sec = r.get("Detector type", "Unknown")
SectionOf(r) == Get(r, "Detector type", Str("Unknown")).s

\* sections of compute_section_and_global: the rows grouped by section, the
\* sections in order of first appearance
RECURSIVE GroupBySection(_, _)
GroupBySection(rows, sections) ==
  IF rows = << >> THEN sections
  ELSE LET r == Head(rows)
       IN GroupBySection(Tail(rows),
            Put(sections, SectionOf(r), Append(Get(sections, SectionOf(r), << >>), r)))

\* the test of a fail that counts whatever is not OK
IsNotOK(rr) == Get(rr, "Conformity", Str("")) # Str("OK")

\* str(rr.get("Conformity", "")).upper() == "NOK": the texts whose upper case
\* is NOK are the three letters n, o, k in either case
IsFail(rr) ==
  LET c == Get(rr, "Conformity", Str(""))
  IN /\ ~IsNum(c)
     /\ Len(c.s) = 3
     /\ CharAt(c.s, 1) \in { "N", "n" }
     /\ CharAt(c.s, 2) \in { "O", "o" }
     /\ CharAt(c.s, 3) \in { "K", "k" }

\* fails of a section
Fails(rows) == Cardinality({ i \in 1..Len(rows) : IsFail(rows[i]) })

\* one entry of summary
SectionSummary(sec, rows) ==
  [Section |-> sec, NbLines |-> Len(rows), NbFAIL |-> Fails(rows),
   Verdict |-> IF Fails(rows) = 0 THEN "OK" ELSE "NOK"]

\* the aggregation that stops at the first NOK section
compute_until_first_nok(processed_rows) ==
  LET sections == GroupBySection(processed_rows, << >>)
      all      == [i \in 1..Len(sections) |-> SectionSummary(sections[i].k, sections[i].v)]
      noks     == { i \in 1..Len(all) : all[i].Verdict = "NOK" }
  IN IF noks = {} THEN << all, "OK" >>
     ELSE << SubSeq(all, 1, CHOOSE i \in noks : \A j \in noks : i <= j), "NOK" >>

\* compute_section_and_global(processed_rows): << summary, global_verdict >>
compute_section_and_global(processed_rows) ==
  LET sections == GroupBySection(processed_rows, << >>)
      summary  == [i \in 1..Len(sections) |-> SectionSummary(sections[i].k, sections[i].v)]
      all_pass == \A i \in 1..Len(summary) : summary[i].Verdict = "OK"
  IN << summary, IF all_pass THEN "OK" ELSE "NOK" >>

(***************************************************************************)
(* Documents                                                               *)
(***************************************************************************)
\* measurement tables
BlockA == << << "Frequency (MHz)", "Peak", "Lim.Peak" >>,
             << "30.000", "40,5", "45,0" >> >>

BlockB == << << "Frequency (MHz)", "CISPR.AVG", "Lim.Avg", "CISPR.AVG-Lim.Avg" >>,
             << "30.000", "40,5", "45,0", "4,5" >>,
             << "150", "50.256", "48", "-2,256" >> >>

\* "Test parameters" tables
ParamsER == << << "Name test:", "CRE2-2025-TP002-02_ER" >>,
               << "Sample:", "EUT 1" >> >>

\* the same configuration name under another Sample ID, below an identity row
ParamsER3 == << << "Sample:", "EUT 2" >>,
                << "Name test:", "CRE2-2025-TP002-03_ER" >> >>

\* a configuration name that contains another one
ParamsERV == << << "Name test:", "CRE2-2025-TP002-02_ER_V" >> >>

\* a configuration name that holds a measurement keyword
ParamsPeak == << << "Name test:", "CRE2-2025-TP002-02_Peak hold" >>,
                 << "Operator:", "NDN" >> >>

\* a table that is neither
OtherBlock == << << "Remarks", "none" >> >>

\* a table without rows
EmptyBlock == << >>

\* an operator table of a third sample: identity key in row 0, another name
ParamsQP == << << "Operator:", "NDN" >>, << "Name test:", "CRE2-2025-TP002-03_QP" >> >>

\* a table of detector readings without frequency, limit or margin column
PeakOnlyBlock == << << "Detector", "Peak" >>, << "QP", "40,5" >> >>

\* a parameter table whose operating mode carries the conclusion
ParamsMode == << << "Name test:", "CRE2-2025-TP002-02_ER" >>,
                 << "Operating mode:", "Mode 3, Conclusion: comply" >> >>

\* a table of margins without frequency or detector column
MarginOnlyBlock == << << "Margin (dB)", "Comment" >>, << "4,5", "ok" >> >>

Palette == { BlockA, BlockB, ParamsER, ParamsER3, ParamsERV, ParamsPeak, OtherBlock, EmptyBlock }

\* the structural family: every Document of at most MaxBlocks palette blocks
Documents == UNION { [1..n -> Palette] : n \in 0..MaxBlocks }

\* header rows of the generated measurement tables
HeaderRows ==
  { << "Frequency (MHz)", "CISPR.AVG", "Lim.Avg", "CISPR.AVG-Lim.Avg" >>,
    << "Frequency (MHz)", "Peak", "Lim.Peak", "Peak-Lim.Peak (dB)" >>,
    << "Frequency (MHz)", "Q-Peak", "Lim.Q-Peak", "Margin" >>,
    << "Frequency (MHz)", "Applied limit", "Peak", "Lim.Peak" >>,
    << "Frequency (MHz)", "Peak", "Q-Peak", "Lim.Q-Peak" >>,
    << "Frequency (MHz)", "Peak", "Margin" >>,
    << "Frequency (MHz)", "Lim.Avg", "Detector", "Comment" >>,
    << "Frequency (MHz)", "Polarization", "CISPR.AVG", "Lim.Avg", "Correction" >> }

\* data rows of the generated measurement tables
DataRowTexts ==
  { << "30.000", "40,5", "45,0", "4,5" >>,
    << "150", "50.256", "48", "-2,256" >>,
    << "30.000", "40,5", "-", "n/a" >>,
    << "0.15", "45,0", "45,0", "" >>,
    << "200", "-", "45,0", "3" >>,
    << "150", "50.256", "48", "" >>,
    << "", " ", "", "" >> }

\* data rows whose cells exercise the floats: an exponent and a difference
\* whose double lies below the half of its decimal, a difference that rounds
\* to -0.0, the zeros of both signs at one frequency, a cell padded by a
\* no-break space, an infinity and a nan
FloatRowTexts ==
  { << "1e3", "40,505", "45,0", "4,49" >>,
    << "150", "45,001", "45,0", "-0" >>,
    << "150", "-0", "0", "45,0" >>,
    << "150", "0", "-0", "45" >>,
    << " 30.000", "inf", "nan", "-NaN" >> }

\* the tables of a palette header row and n palette data rows
TablesOf(n) == { << h >> \o rows : h \in HeaderRows, rows \in [1..n -> DataRowTexts] }

\* the tables of a palette header row and n such rows
FloatTablesOf(n) == { << h >> \o rows : h \in HeaderRows, rows \in [1..n -> FloatRowTexts] }

\* the row family: a generated table of at most MaxRows data rows right before
\* a declaration, and a generated table of at most one data row between a
\* palette block and a declaration
RowDocuments ==
  { << t, ParamsER >> : t \in UNION { TablesOf(n) : n \in 0..MaxRows } }
    \cup { << t, ParamsER >> : t \in UNION { FloatTablesOf(n) : n \in 1..MaxRows } }
    \cup { << b, t, ParamsER >> :
             b \in { BlockA, BlockB, ParamsQP, OtherBlock, EmptyBlock },
             t \in TablesOf(0) \cup TablesOf(1) }
    \cup { << b, ParamsER >> : b \in { PeakOnlyBlock, MarginOnlyBlock } }
    \cup { << BlockA, ParamsMode >> }

(***************************************************************************)
(* State                                                                   *)
(***************************************************************************)
VARIABLES
  doc,                 \* the Document (doc.tables), read only
  pc,                  \* where the run stands
  all_configurations,  \* extract_data: the discovered configurations
  sample_groups,       \* extract_data: sample_id -> configurations
  si,                  \* the group the outer loop of extract_data is at
  ci,                  \* the configuration the inner loop is at
  config_measurements, \* extract_data: config_name -> measurements, of the group
  config_test_params,  \* extract_data: config_name -> test parameters, of the group
  all_samples_data,    \* extract_data: the result
  target_table_idx,    \* extract_measurements_for_configuration: 0 for None
  check_idx,           \* the block the backward scan is at, 0 past the first
  measurements,        \* the list the scan accumulates
  scanned,             \* history: the blocks the scan gave to the row extractor
  taken,               \* history: the blocks the scan appended rows of
  resolved,            \* history: one record per finished resolution
  cur,                 \* the configuration and the list the rules are applied to
  processed,           \* process_data: its result
  summary,             \* compute_section_and_global: the section summaries
  global_verdict,      \* compute_section_and_global: the global verdict
  h_text,              \* the text of a header cell
  h_unit,              \* normalize_unit of the stripped cell text
  h_std,               \* normalize_header of h_unit
  h_twice,             \* normalize_header of h_std
  c_text,              \* the text of a data cell
  c_val,               \* clean_decimal of the cell text
  c_row,               \* the measures extracted from a table with that cell
  workers              \* one call of extract_measurements_for_configuration per
                       \* configuration, each with its own locals

vars == << doc, pc, all_configurations, sample_groups, si, ci, config_measurements,
           config_test_params,
           all_samples_data, target_table_idx, check_idx, measurements, scanned,
           taken, resolved, cur, processed, summary, global_verdict,
           h_text, h_unit, h_std, h_twice, c_text, c_val, c_row, workers >>

scanVars == << target_table_idx, check_idx, measurements, scanned, taken >>
loopVars == << si, ci, config_measurements, all_samples_data, resolved >>
ruleVars == << cur, processed, summary, global_verdict >>
cellVars == << c_text, c_val, c_row >>
stageVars == << h_text, h_unit, h_std, h_twice, cellVars, workers >>
headVars == << stageVars, config_test_params >>

\* the state extract_data starts in, on Document d
Start(d) ==
  /\ doc = d
  /\ pc = "start"
  /\ all_configurations = << >>
  /\ sample_groups = << >>
  /\ si = 1
  /\ ci = 1
  /\ config_measurements = << >>
  /\ config_test_params = << >>
  /\ all_samples_data = << >>
  /\ target_table_idx = 0
  /\ check_idx = 0
  /\ measurements = << >>
  /\ scanned = {}
  /\ taken = {}
  /\ resolved = << >>
  /\ cur = [sample_id |-> "", config_name |-> "", measurements |-> << >>]
  /\ processed = << >>
  /\ summary = << >>
  /\ global_verdict = ""
  /\ h_text = ""
  /\ h_unit = ""
  /\ h_std = ""
  /\ h_twice = ""
  /\ c_text = ""
  /\ c_val = Str("")
  /\ c_row = << >>
  /\ workers = << >>

Init == \E d \in Documents : Start(d)

InitRows == \E d \in RowDocuments : Start(d)

(***************************************************************************)
(* extract_data                                                            *)
(***************************************************************************)
\* the configuration the loops are at
Config == sample_groups[si].v[ci]

\* history: the block whose "name test:" row produced the configuration the
\* loops are at (the ci-th record of its sample_id, in document order)
DeclaringBlock ==
  LET ps == ConfigPositions(doc, 1)
      RECURSIVE Nth(_, _)
      Nth(i, n) ==
        IF RowConfiguration(doc[ps[i][1]][ps[i][2]]).sample_id = sample_groups[si].k
        THEN IF n = 1 THEN ps[i][1] ELSE Nth(i + 1, n - 1)
        ELSE Nth(i + 1, n)
  IN Nth(1, ci)

\* step 1: all_configurations = extract_all_configurations(doc)
ExtractAllConfigurations ==
  /\ pc = "start"
  /\ all_configurations' = extract_all_configurations(doc)
  /\ pc' = "group"
  /\ UNCHANGED << doc, headVars, sample_groups, loopVars, scanVars, ruleVars >>

\* step 2: the grouping by Sample ID; without a group extract_data returns {}
GroupConfigurations ==
  /\ pc = "group"
  /\ sample_groups' = GroupBySample(all_configurations, << >>)
  /\ pc' = IF all_configurations = << >> THEN "done" ELSE "config"
  /\ UNCHANGED << doc, headVars, all_configurations, loopVars, scanVars, ruleVars >>

\* the body of the loop over the configurations of a group, first call:
\* config_test_params[config_name] = extract_test_params_for_configuration(...);
\* an exception of the call leaves extract_data
ExtractTestParams ==
  /\ pc = "config"
  /\ LET r == extract_test_params_for_configuration(doc, sample_groups[si].k, Config.config_name)
     IN /\ config_test_params' =
             IF r.raised THEN config_test_params
             ELSE Put(config_test_params, Config.config_name, r.params)
        /\ pc' = IF r.raised THEN "raised" ELSE "target"
  /\ UNCHANGED << doc, stageVars, all_configurations, sample_groups, loopVars, scanVars, ruleVars >>

\* extract_measurements_for_configuration, step 1: the search of the target table
FindTarget ==
  /\ pc = "target"
  /\ LET t == TargetTableIdx(doc, Config.config_name)
     IN /\ target_table_idx' = t
        /\ check_idx' = IF t = 0 THEN 0 ELSE t - 1
        /\ pc' = IF t = 0 THEN "store" ELSE "scan"
  /\ measurements' = << >>
  /\ scanned' = {}
  /\ taken' = {}
  /\ UNCHANGED << doc, headVars, all_configurations, sample_groups, loopVars, ruleVars >>

\* step 2, the loop is over: range(target_table_idx - 1, -1, -1) is exhausted
ScanEnd ==
  /\ pc = "scan"
  /\ check_idx = 0
  /\ pc' = "store"
  /\ UNCHANGED << doc, headVars, all_configurations, sample_groups, loopVars, scanVars, ruleVars >>

\* step 2, check_table.rows[0] of a table without rows: IndexError
ScanRaise ==
  /\ pc = "scan"
  /\ check_idx > 0
  /\ Len(doc[check_idx]) = 0
  /\ pc' = "raised"
  /\ UNCHANGED << doc, headVars, all_configurations, sample_groups, loopVars, scanVars, ruleVars >>

\* step 2, a parameters table: break
ScanParams ==
  /\ pc = "scan"
  /\ check_idx > 0
  /\ Len(doc[check_idx]) > 0
  /\ ScanBranch(doc[check_idx]) = "params"
  /\ pc' = "store"
  /\ UNCHANGED << doc, headVars, all_configurations, sample_groups, loopVars, scanVars, ruleVars >>

\* step 2, a measurement table: its measures are added, the scan goes on
ScanMeasurement ==
  /\ pc = "scan"
  /\ check_idx > 0
  /\ Len(doc[check_idx]) > 0
  /\ ScanBranch(doc[check_idx]) = "measurement"
  /\ LET table_measurements == extract_measurements_from_table(doc[check_idx], sample_groups[si].k)
         added == Accumulate(measurements, table_measurements)
     IN /\ measurements' = added
        /\ taken' = IF Len(added) > Len(measurements) THEN taken \cup { check_idx } ELSE taken
  /\ scanned' = scanned \cup { check_idx }
  /\ check_idx' = check_idx - 1
  /\ UNCHANGED << doc, headVars, pc, all_configurations, sample_groups, loopVars, target_table_idx, ruleVars >>

\* step 2, any other table: break
ScanOther ==
  /\ pc = "scan"
  /\ check_idx > 0
  /\ Len(doc[check_idx]) > 0
  /\ ScanBranch(doc[check_idx]) = "other"
  /\ pc' = "store"
  /\ UNCHANGED << doc, headVars, all_configurations, sample_groups, loopVars, scanVars, ruleVars >>

\* config_measurements[config_name] = measurements, and the next configuration
StoreConfiguration ==
  /\ pc = "store"
  /\ config_measurements' = Put(config_measurements, Config.config_name, measurements)
  /\ resolved' = Append(resolved,
       [sample_id |-> sample_groups[si].k, config_name |-> Config.config_name,
        declaring |-> DeclaringBlock, target |-> target_table_idx,
        scanned |-> scanned, taken |-> taken, measurements |-> measurements])
  /\ IF ci < Len(sample_groups[si].v)
     THEN ci' = ci + 1 /\ pc' = "config"
     ELSE ci' = ci /\ pc' = "sample"
  /\ UNCHANGED << doc, headVars, all_configurations, sample_groups, si, all_samples_data, scanVars, ruleVars >>

\* all_samples_data[sample_id] = {...}, and the next Sample ID or the return
StoreSample ==
  /\ pc = "sample"
  /\ all_samples_data' = Put(all_samples_data, sample_groups[si].k,
       [configurations |-> sample_groups[si].v, config_measurements |-> config_measurements,
        config_test_params |-> config_test_params])
  /\ config_measurements' = << >>
  /\ config_test_params' = << >>
  /\ IF si < Len(sample_groups)
     THEN si' = si + 1 /\ ci' = 1 /\ pc' = "config"
     ELSE si' = si /\ ci' = ci /\ pc' = "done"
  /\ UNCHANGED << doc, stageVars, all_configurations, sample_groups, resolved, scanVars, ruleVars >>

(***************************************************************************)
(* rules.py applied to an extracted measurement list                       *)
(***************************************************************************)
\* processed = process_data(measurements), for one list of the result
ProcessData ==
  /\ pc = "done"
  /\ \E s \in 1..Len(all_samples_data) :
       \E c \in 1..Len(all_samples_data[s].v.config_measurements) :
         LET e == all_samples_data[s].v.config_measurements[c]
         IN /\ cur' = [sample_id |-> all_samples_data[s].k, config_name |-> e.k,
                       measurements |-> e.v]
            /\ processed' = process_data(e.v)
  /\ pc' = "processed"
  /\ UNCHANGED << doc, headVars, all_configurations, sample_groups, loopVars, scanVars, summary, global_verdict >>

\* summary, global_verdict = compute_section_and_global(processed)
ComputeSectionAndGlobal ==
  /\ pc = "processed"
  /\ summary' = compute_section_and_global(processed)[1]
  /\ global_verdict' = compute_section_and_global(processed)[2]
  /\ pc' = "summarised"
  /\ UNCHANGED << doc, headVars, all_configurations, sample_groups, loopVars, scanVars, cur, processed >>

(***************************************************************************)
(* main.py: the loop over the result of extract_data                       *)
(***************************************************************************)
\* the keys main reads in the record of a Sample ID
MainKeys == { "test_params", "config_measurements", "configurations" }

\* the first statements of the loop body, on the first Sample ID: a key the
\* record does not have is a KeyError, which main does not catch
MainReadSample ==
  /\ pc = "done"
  /\ all_samples_data # << >>
  /\ pc' = IF MainKeys \subseteq DOMAIN all_samples_data[1].v THEN "main" ELSE "main_raised"
  /\ UNCHANGED << doc, headVars, all_configurations, sample_groups, loopVars, scanVars, ruleVars >>

Next ==
  \/ ExtractAllConfigurations
  \/ GroupConfigurations
  \/ ExtractTestParams
  \/ FindTarget
  \/ ScanEnd
  \/ ScanRaise
  \/ ScanParams
  \/ ScanMeasurement
  \/ ScanOther
  \/ StoreConfiguration
  \/ StoreSample
  \/ MainReadSample
  \/ ProcessData
  \/ ComputeSectionAndGlobal

\* runs of the pipeline on the structural family
Spec == Init /\ [][Next]_vars

\* runs of the pipeline on the row family
SpecRows == InitRows /\ [][Next]_vars

(***************************************************************************)
(* extract_measurements_for_configuration, one call per configuration, the *)
(* steps of the calls interleaved                                          *)
(***************************************************************************)
\* the backward scan as one call runs it from block i with the list acc:
\* raised when check_table.rows[0] fails, else the list returned
RECURSIVE ScanFrom(_, _, _, _)
ScanFrom(d, i, sample_id, acc) ==
  IF i = 0 THEN [raised |-> FALSE, list |-> acc]
  ELSE IF Len(d[i]) = 0 THEN [raised |-> TRUE, list |-> << >>]
  ELSE IF ScanBranch(d[i]) = "measurement"
       THEN ScanFrom(d, i - 1, sample_id,
                     Accumulate(acc, extract_measurements_from_table(d[i], sample_id)))
       ELSE [raised |-> FALSE, list |-> acc]

\* the call as the sequential run makes it for one configuration
extract_measurements_for_configuration(d, sample_id, config_name) ==
  LET t == TargetTableIdx(d, config_name)
  IN IF t = 0 THEN [raised |-> FALSE, list |-> << >>]
     ELSE ScanFrom(d, t - 1, sample_id, << >>)

\* a list all the calls would share
SharedList(w) == 1

\* the list a call accumulates in: its local measurements = []
ListOf(w) == w

\* measurement blocks and other blocks below a declaration
WorkerBlocks == { BlockA, BlockB, OtherBlock, EmptyBlock }

\* blocks that declare a configuration
WorkerParams == { ParamsER, ParamsER3, ParamsERV, ParamsPeak }

\* Documents with two declarations: each with its own block below it, or the
\* second right above the first
WorkerDocuments ==
  { << a, p, b, q >> : a \in WorkerBlocks, p \in WorkerParams, b \in WorkerBlocks,
                       q \in WorkerParams }
    \cup { << a, b, p, q >> : a \in WorkerBlocks, b \in WorkerBlocks, p \in WorkerParams,
                             q \in WorkerParams }

InitWorkers == \E d \in WorkerDocuments : Start(d)

\* the variables the calls leave alone
callFrame ==
  << doc, all_configurations, sample_groups, loopVars, config_test_params, scanVars,
     ruleVars, h_text, h_unit, h_std, h_twice, cellVars >>

\* the configurations are discovered and one call per configuration starts
FanOut ==
  /\ pc = "start"
  /\ LET configs == extract_all_configurations(doc)
     IN workers' = [w \in 1..Len(configs) |->
                      [config |-> configs[w], pc |-> "target", target_table_idx |-> 0,
                       check_idx |-> 0, measurements |-> << >>]]
  /\ pc' = "workers"
  /\ UNCHANGED callFrame

\* step 1 of call w: the search of the target table
WorkerFindTarget(w) ==
  /\ workers[w].pc = "target"
  /\ LET t == TargetTableIdx(doc, workers[w].config.config_name)
     IN workers' = [workers EXCEPT ![w].target_table_idx = t,
                                   ![w].check_idx = IF t = 0 THEN 0 ELSE t - 1,
                                   ![w].pc = IF t = 0 THEN "done" ELSE "scan"]
  /\ UNCHANGED << pc, callFrame >>

\* step 2 of call w, the range is exhausted: return measurements
WorkerScanEnd(w) ==
  /\ workers[w].pc = "scan"
  /\ workers[w].check_idx = 0
  /\ workers' = [workers EXCEPT ![w].pc = "done"]
  /\ UNCHANGED << pc, callFrame >>

\* step 2 of call w, check_table.rows[0] of a table without rows: IndexError
WorkerScanRaise(w) ==
  /\ workers[w].pc = "scan"
  /\ workers[w].check_idx > 0
  /\ Len(doc[workers[w].check_idx]) = 0
  /\ workers' = [workers EXCEPT ![w].pc = "raised"]
  /\ UNCHANGED << pc, callFrame >>

\* step 2 of call w, a parameters table or any other table: break, return
WorkerScanBreak(w) ==
  /\ workers[w].pc = "scan"
  /\ workers[w].check_idx > 0
  /\ Len(doc[workers[w].check_idx]) > 0
  /\ ScanBranch(doc[workers[w].check_idx]) \in { "params", "other" }
  /\ workers' = [workers EXCEPT ![w].pc = "done"]
  /\ UNCHANGED << pc, callFrame >>

\* step 2 of call w, a measurement table: its measures are added to the list
\* of the call, the scan goes on
WorkerScanMeasurement(w) ==
  /\ workers[w].pc = "scan"
  /\ workers[w].check_idx > 0
  /\ Len(doc[workers[w].check_idx]) > 0
  /\ ScanBranch(doc[workers[w].check_idx]) = "measurement"
  /\ LET table_measurements ==
           extract_measurements_from_table(doc[workers[w].check_idx],
                                           workers[w].config.sample_id)
         added == Accumulate(workers[ListOf(w)].measurements, table_measurements)
     IN workers' = [[workers EXCEPT ![ListOf(w)].measurements = added]
                      EXCEPT ![w].check_idx = @ - 1]
  /\ UNCHANGED << pc, callFrame >>

NextWorkers ==
  \/ FanOut
  \/ \E w \in DOMAIN workers : WorkerFindTarget(w)
  \/ \E w \in DOMAIN workers : WorkerScanEnd(w)
  \/ \E w \in DOMAIN workers : WorkerScanRaise(w)
  \/ \E w \in DOMAIN workers : WorkerScanBreak(w)
  \/ \E w \in DOMAIN workers : WorkerScanMeasurement(w)

\* one call per configuration, the steps of the calls in any order
SpecWorkers == InitWorkers /\ [][NextWorkers]_vars

(***************************************************************************)
(* Header normalisation, as extract_measurements_from_table applies it to  *)
(* one cell of a header row                                                *)
(***************************************************************************)
\* what the header cells of the documents say, without unit
HeaderCores ==
  { "CISPR.AVG-Lim.Avg", "Peak-Lim.Peak", "Q-Peak-Lim.Q-Peak", "Peak-Lim.Q-Peak",
    "CISPR.AVG", "Peak", "Q-Peak", "Lim.Avg", "Lim.Peak", "Lim.Q-Peak",
    "Frequency", "frequency", "q-peak", "QP", "Margin", "Applied limit",
    "Detector", "Comment", "Remarks", "Polarization", "Antenna position", "SR", "",
    "FRÉQUENCE", "MARGIN Þ" }

\* the units that follow, well and badly encoded
HeaderSuffixes == { "", " (dB)", " (dBµV/m)", " (dBÂµV/m)", " (MHz) ", " (dBμV/m)" }

\* the labels of the rules of normalize_header
Labels == { priority_mappings[i][2] : i \in 1..Len(priority_mappings) }

\* the header family: a core and a unit, with or without leading blank or
\* no-break space, and the labels themselves
HeaderTexts ==
  { pre \o core \o suf : pre \in { "", " ", " " }, core \in HeaderCores,
                          suf \in HeaderSuffixes }
    \cup Labels

InitHeaders ==
  /\ h_text \in HeaderTexts
  /\ pc = "header"
  /\ doc = << >>
  /\ all_configurations = << >>
  /\ sample_groups = << >>
  /\ si = 1
  /\ ci = 1
  /\ config_measurements = << >>
  /\ config_test_params = << >>
  /\ all_samples_data = << >>
  /\ target_table_idx = 0
  /\ check_idx = 0
  /\ measurements = << >>
  /\ scanned = {}
  /\ taken = {}
  /\ resolved = << >>
  /\ cur = [sample_id |-> "", config_name |-> "", measurements |-> << >>]
  /\ processed = << >>
  /\ summary = << >>
  /\ global_verdict = ""
  /\ h_unit = ""
  /\ h_std = ""
  /\ h_twice = ""
  /\ c_text = ""
  /\ c_val = Str("")
  /\ c_row = << >>
  /\ workers = << >>

pipelineVars ==
  << doc, all_configurations, sample_groups, loopVars, config_test_params, scanVars,
     ruleVars, workers >>

\* normalize_unit(c.text.strip())
NormalizeUnit ==
  /\ pc = "header"
  /\ h_unit' = normalize_unit(Strip(h_text))
  /\ pc' = "unit"
  /\ UNCHANGED << pipelineVars, cellVars, h_text, h_std, h_twice >>

\* normalize_header(...) of the result
NormalizeHeader ==
  /\ pc = "unit"
  /\ h_std' = normalize_header(h_unit)
  /\ pc' = "normalized"
  /\ UNCHANGED << pipelineVars, cellVars, h_text, h_unit, h_twice >>

\* normalize_header applied to its own result
NormalizeAgain ==
  /\ pc = "normalized"
  /\ h_twice' = normalize_header(h_std)
  /\ pc' = "renormalized"
  /\ UNCHANGED << pipelineVars, cellVars, h_text, h_unit, h_std >>

NextHeaders ==
  \/ NormalizeUnit
  \/ NormalizeHeader
  \/ NormalizeAgain

\* the Header Normalizer on the header family
SpecHeaders == InitHeaders /\ [][NextHeaders]_vars

(***************************************************************************)
(* The Value Cleaner, as extract_measurements_from_table applies it to the *)
(* cells of a data row                                                     *)
(***************************************************************************)
\* cell texts without padding: numbers with a comma or a point, signs, bare
\* points, exponents, digit separators, more decimals than the double holds,
\* infinities and nan, and texts that are no number
CellCores ==
  { "40,5", "40.5", "30.000", "-2,256", "+3", "0", "007", ".5", "5.", "-.25", "12,",
    "1,2,3", "1.2.3", "-", "", "n/a", "N/A", "abc", "4 5", "1,5 dB", "--1", "+-1",
    ".", ",", "-,5", "1 ,5", "<30", "45,0", "1.234,5", "- 5",
    "1e3", "1,5E-2", "2e+05", "1e", "e5", "1e5,5", "1_0", "1__0", "_1", "1_", "1_0,0_1",
    "40,5678", "40,505", "0,1000000000000000055", "9007199254740993", "-0", "1e400",
    "1e-400", "inf", "-Infinity", "+iNf", "infinit", "nan", "-NaN", "nan5", "0x10",
    "1 000", "²" }

\* the texts of a cell: a core, padded or not
CellTexts ==
  { pre \o core \o suf : pre \in { "", " ", " " }, core \in CellCores,
                          suf \in { "", " ", "\n", "\f" } }

\* the table the cell is read in: the cell is the measure of its only data row
CellTable(text) ==
  << << "Frequency (MHz)", "Peak", "Lim.Peak" >>, << "30.000", text, "45,0" >> >>

InitCells ==
  /\ c_text \in CellTexts
  /\ pc = "cell"
  /\ c_val = Str("")
  /\ c_row = << >>
  /\ workers = << >>
  /\ doc = << >>
  /\ all_configurations = << >>
  /\ sample_groups = << >>
  /\ si = 1
  /\ ci = 1
  /\ config_measurements = << >>
  /\ config_test_params = << >>
  /\ all_samples_data = << >>
  /\ target_table_idx = 0
  /\ check_idx = 0
  /\ measurements = << >>
  /\ scanned = {}
  /\ taken = {}
  /\ resolved = << >>
  /\ cur = [sample_id |-> "", config_name |-> "", measurements |-> << >>]
  /\ processed = << >>
  /\ summary = << >>
  /\ global_verdict = ""
  /\ h_text = ""
  /\ h_unit = ""
  /\ h_std = ""
  /\ h_twice = ""

\* clean_decimal(value)
CleanDecimal ==
  /\ pc = "cell"
  /\ c_val' = clean_decimal(c_text)
  /\ pc' = "cleaned"
  /\ UNCHANGED << pipelineVars, h_text, h_unit, h_std, h_twice, c_text, c_row >>

\* extract_measurements_from_table on the table of the cell
ExtractCellRow ==
  /\ pc = "cleaned"
  /\ c_row' = extract_measurements_from_table(CellTable(c_text), "CRE2-2025-TP002-02")
  /\ pc' = "row"
  /\ UNCHANGED << pipelineVars, h_text, h_unit, h_std, h_twice, c_text, c_val >>

NextCells ==
  \/ CleanDecimal
  \/ ExtractCellRow

\* the Value Cleaner on the cell family
SpecCells == InitCells /\ [][NextCells]_vars

(***************************************************************************)
(* Configuration discovery on generated "name test:" rows                  *)
(***************************************************************************)
\* most rows of the table of a Document of the name family
MaxNameRows == 2

\* value cells: a Sample ID, the delimiter and a text, with white space
\* around the value, after it, or for the whole text
WellFormedValues ==
  { "CRE2-2025-TP002-02_ER", "CRE2-2025-TP002-02_ER_V", "CRE2-2025-TP002-02_ER_In front_9kHz",
    "CRE2-2025-TP002-02_", "CRE2-2025-TP002-02__x", "CRE2-2025-TP002-02_a__b",
    "CRE2-2024-TP113-10_ER", " CRE2-2025-TP002-02_ER ", "CRE2-2025-TP002-02_ER ",
    "CRE2-2025-TP002-02_ \f" }

\* value cells whose prefix holds a Sample ID and more
RelaxedValues ==
  { "RefCRE2-2025-TP002-02_ER", "CRE2-2025-TP002-021_ER", "CRE2-2025-TP002-02 _ER" }

\* value cells whose prefix holds no Sample ID, or that have no prefix
MalformedValues ==
  { "CRE2-25-TP002-02_ER", "ABC_ER", "cre2-2025-tp002-02_ER", "_ER", "",
    "CRE2-2025-TP002-02" }

\* rows of a "Test parameters" table
NameRows ==
  { << "Name test:", v >> : v \in WellFormedValues \cup RelaxedValues \cup MalformedValues }
    \cup { << " NAME Test: ", "CRE2-2024-TP113-10_ER" >>,
           << " NAME TEST:", "CRE2-2024-TP113-10_ÉR" >>,
           << "Sample:", "CRE2-2025-TP002-02_ER" >>,
           << "Name test:" >> }

\* the name family: one table of at most MaxNameRows such rows
NameDocuments == { << t >> : t \in UNION { [1..n -> NameRows] : n \in 1..MaxNameRows } }

\* rows of the order family: two samples, two configurations, one bad name
OrderRows ==
  { << "Name test:", "CRE2-2025-TP002-02_ER" >>,
    << "Name test:", "CRE2-2024-TP113-10_ER" >>,
    << "Name test:", "CRE2-2025-TP002-02_ER_V" >>,
    << "Name test:", "ABC_ER" >> }

OrderTables == UNION { [1..n -> OrderRows] : n \in 1..MaxNameRows }

\* the order family: one or two tables of such rows
OrderDocuments ==
  { << t >> : t \in OrderTables } \cup { << t, u >> : t \in OrderTables, u \in OrderTables }

InitOrder == \E d \in OrderDocuments : Start(d)

InitNames == \E d \in NameDocuments : Start(d)

NextNames ==
  \/ ExtractAllConfigurations
  \/ GroupConfigurations

\* configuration discovery on the name family
SpecNames == InitNames /\ [][NextNames]_vars

\* configuration discovery and grouping on the order family
SpecOrder == InitOrder /\ [][NextNames]_vars

(***************************************************************************)
(* Association of configurations with measurement blocks                   *)
(***************************************************************************)
\* the records of finished resolutions whose (sample_id, config_name) pair is
\* produced by exactly one "name test:" row of the Document
Unambiguous ==
  { i \in 1..Len(resolved) :
      Cardinality({ j \in 1..Len(all_configurations) :
                      /\ all_configurations[j].sample_id = resolved[i].sample_id
                      /\ all_configurations[j].config_name = resolved[i].config_name }) = 1 }

\* a block that holds a "name test:" row that yields a configuration
Declares(b) == DeclaringRows(doc[b], 1) # << >>

\* C1: the list resolved for a configuration holds no row of a block A that a
\* configuration-declaring block P1 separates from the declaring block P2 of
\* the configuration (A < P1 < P2), whatever the cells of P1 say; stated for
\* the resolutions whose scan starts at P2, so the scan alone decides it
C1_AssociationBoundary ==
  \A i \in Unambiguous :
    resolved[i].target = resolved[i].declaring =>
      \A a \in resolved[i].taken :
        ~\E p1 \in (a + 1)..(resolved[i].declaring - 1) : Declares(p1)

\* C2: two configurations with different (sample_id, config_name) pairs
\* collect their measurements from disjoint sets of blocks
C2_DisjointBlocks ==
  \A i, j \in 1..Len(resolved) :
    << resolved[i].sample_id, resolved[i].config_name >>
        # << resolved[j].sample_id, resolved[j].config_name >>
      => resolved[i].taken \cap resolved[j].taken = {}

\* C3: the target block of a configuration is the block whose "name test:" row
\* produced its record
C3_TargetIsDeclaringBlock ==
  \A i \in Unambiguous : resolved[i].target = resolved[i].declaring

\* the largest block below i that the scan does not pass: its first row holds
\* a test-identity key or no measurement keyword, or it has no row; 0 if none
StopBelow(i) ==
  LET stops == { j \in 1..(i - 1) :
                   Len(doc[j]) = 0 \/ ScanBranch(doc[j]) # "measurement" }
  IN IF stops = {} THEN 0 ELSE CHOOSE j \in stops : \A k \in stops : k <= j

\* C4: the blocks handed to the row extractor for a configuration declared at
\* block i are exactly the blocks between StopBelow(i) and i, both excluded
C4_ScannedRun ==
  \A i \in Unambiguous :
    resolved[i].scanned = (StopBelow(resolved[i].declaring) + 1)..(resolved[i].declaring - 1)

(***************************************************************************)
(* Deduplication                                                           *)
(***************************************************************************)
\* the (Frequency, Measure) pair of a measure, "" for a missing field
KeyPair(m) == << Get(m, "Frequency (MHz)", Str("")), Get(m, "Mesure (dBµV/m)", Str("")) >>

\* a == b of two values: two floats are equal when they are the same number,
\* so 0.0 and -0.0 are, and nan is equal to nothing; two texts are equal when
\* they are the same text; a float and a text are never equal
SameValue(a, b) ==
  IF IsNum(a) /\ IsNum(b)
  THEN /\ a.s # "nan"
       /\ b.s # "nan"
       /\ a = b \/ { a, b } = { Num(0), Float(ByRepr("-0.0")) }
  ELSE a = b

\* two measures with the same (Frequency, Measure) pair
SameKeyPair(m1, m2) ==
  /\ SameValue(KeyPair(m1)[1], KeyPair(m2)[1])
  /\ SameValue(KeyPair(m1)[2], KeyPair(m2)[2])

\* C10, as stated: while a configuration is resolved, feeding a block that
\* was already accumulated into the list once more leaves the list as it is,
\* and no two records of the list have the same (Frequency, Measure) pair
C10_DedupIdempotent ==
  pc \in { "scan", "store" } =>
    /\ \A b \in scanned :
         Accumulate(measurements,
                    extract_measurements_from_table(doc[b], sample_groups[si].k)) = measurements
    /\ \A i, j \in 1..Len(measurements) :
         SameKeyPair(measurements[i], measurements[j]) => i = j

(***************************************************************************)
(* Margin and verdict                                                      *)
(***************************************************************************)
\* the canonical fields of a record, Str("") for a missing one
MeasureOf(m) == Get(m, "Mesure (dBµV/m)", Str(""))
LimitOf(m) == Get(m, "Limite (dBµV/m)", Str(""))
MarginIn(r) == Get(r, "Margin (dB)", Str(""))
ConformityIn(r) == Get(r, "Conformity", Str("")).s

\* round(l - m, 2) of two numeric values
RoundedDifference(l, m) == Float(Round2(FloatSub(l, m)))

\* the verdict the sign of a margin asks for
VerdictBySign(margin) ==
  IF ~IsNum(margin) THEN "-" ELSE IF NotNegative(margin) THEN "OK" ELSE "NOK"

\* C5: a measure of the row extractor with a numeric Measure m and a numeric
\* Limit l leaves process_data with Margin = round(l - m, 2) and with
\* Conformity OK if that margin is >= 0, NOK if not
C5_MarginSignConsistency ==
  pc = "processed" =>
    \A i \in 1..Len(cur.measurements) :
      LET m == MeasureOf(cur.measurements[i])
          l == LimitOf(cur.measurements[i])
      IN IsNum(m) /\ IsNum(l) =>
           /\ MarginIn(processed[i]) = RoundedDifference(l, m)
           /\ ConformityIn(processed[i]) = VerdictBySign(RoundedDifference(l, m))

\* C6, as stated: a measure without a numeric Measure or without a numeric
\* Limit leaves process_data with Margin "N/A" and Conformity "-"
C6_MissingMeasureOrLimit ==
  pc = "processed" =>
    \A i \in 1..Len(cur.measurements) :
      ~(IsNum(MeasureOf(cur.measurements[i])) /\ IsNum(LimitOf(cur.measurements[i]))) =>
        /\ MarginIn(processed[i]) = Str("N/A")
        /\ ConformityIn(processed[i]) = "-"

\* the Margin a record carries from the margin column of its table, "N/A" for
\* a record that carries none
CarriedMargin(m) == Get(m, "Margin (dB)", Str("N/A"))

\* a record without a numeric Measure or without a numeric Limit
MissingMeasureOrLimit(m) == ~(IsNum(MeasureOf(m)) /\ IsNum(LimitOf(m)))

\* a record with a column that is neither its Measure nor its Limit and whose
\* name holds "limit", "cispr" or "mesure": the column of C5
HasNamesakeColumn(m) ==
  \E i \in 1..Len(m) :
    /\ m[i].k \notin { "Mesure (dBµV/m)", "Limite (dBµV/m)" }
    /\ \E w \in { "limit", "cispr", "mesure" } : Contains(Lower(m[i].k), w)

\* C6, amended: a measure without a numeric Measure or without a numeric
\* Limit leaves process_data with the Margin the record carried, "N/A" if it
\* carried none, or, when the record has a column of another name that holds
\* "limit", "cispr" or "mesure", with a number; and with the verdict of the
\* margin it leaves with: OK or NOK by the sign of a number, "-" for
\* anything else
C6_ExistingMarginKept ==
  pc = "processed" =>
    \A i \in 1..Len(cur.measurements) :
      MissingMeasureOrLimit(cur.measurements[i]) =>
        /\ \/ MarginIn(processed[i]) = CarriedMargin(cur.measurements[i])
           \/ /\ HasNamesakeColumn(cur.measurements[i])
              /\ IsNum(MarginIn(processed[i]))
        /\ ConformityIn(processed[i]) = VerdictBySign(MarginIn(processed[i]))

\* a record without a Limit that carried a numeric Margin was processed and
\* has kept it
C6_Witness ==
  /\ pc = "processed"
  /\ \E i \in 1..Len(cur.measurements) :
       /\ ~Has(cur.measurements[i], "Limite (dBµV/m)")
       /\ IsNum(MeasureOf(cur.measurements[i]))
       /\ IsNum(CarriedMargin(cur.measurements[i]))
       /\ MarginIn(processed[i]) = CarriedMargin(cur.measurements[i])
       /\ ConformityIn(processed[i]) \in { "OK", "NOK" }

\* a record without a numeric Limit and without a Margin was processed and
\* has the margin of its "Applied limit" column
C6_WitnessNamesake ==
  /\ pc = "processed"
  /\ \E i \in 1..Len(cur.measurements) :
       /\ MissingMeasureOrLimit(cur.measurements[i])
       /\ ~Has(cur.measurements[i], "Margin (dB)")
       /\ Has(cur.measurements[i], "Applied limit")
       /\ MarginIn(processed[i]) = Num(2 * Scale + 260)

\* C7: process_data returns one record per measure, each with a Margin and a
\* Conformity; Conformity is OK or NOK exactly when the Margin is a number and
\* "-" exactly when it is not
C7_MarginAndVerdictTogether ==
  pc \in { "processed", "summarised" } =>
    /\ Len(processed) = Len(cur.measurements)
    /\ \A i \in 1..Len(processed) :
         /\ Has(processed[i], "Margin (dB)")
         /\ Has(processed[i], "Conformity")
         /\ ConformityIn(processed[i]) \in { "OK", "NOK" } <=> IsNum(MarginIn(processed[i]))
         /\ ConformityIn(processed[i]) = "-" <=> ~IsNum(MarginIn(processed[i]))

\* a list with a numeric margin and with a margin that is no number was processed
C7_Witness ==
  /\ pc = "processed"
  /\ \E i, j \in 1..Len(processed) :
       /\ IsNum(MarginIn(processed[i]))
       /\ ~IsNum(MarginIn(processed[j]))

(***************************************************************************)
(* Aggregation                                                             *)
(***************************************************************************)
\* the processed rows of a section, and those among them with a verdict
RowsOf(sec) == { j \in 1..Len(processed) : SectionOf(processed[j]) = sec }
RowsWith(sec, verdict) == { j \in RowsOf(sec) : ConformityIn(processed[j]) = verdict }

\* C8: one summary per Detector type of the processed rows (Unknown for a row
\* without one), its NbFAIL the number of NOK rows of the section, its Verdict
\* OK iff NbFAIL is 0; the global verdict is OK iff every section is OK, and
\* NOK iff some processed row is NOK
C8_Aggregation ==
  pc = "summarised" =>
    /\ Len(summary) = Cardinality({ SectionOf(processed[j]) : j \in 1..Len(processed) })
    /\ { summary[i].Section : i \in 1..Len(summary) }
         = { SectionOf(processed[j]) : j \in 1..Len(processed) }
    /\ \A i \in 1..Len(summary) :
         /\ summary[i].NbFAIL = Cardinality(RowsWith(summary[i].Section, "NOK"))
         /\ summary[i].Verdict = IF summary[i].NbFAIL = 0 THEN "OK" ELSE "NOK"
    /\ global_verdict = "OK" <=> \A i \in 1..Len(summary) : summary[i].Verdict = "OK"
    /\ global_verdict = "NOK" <=> \E j \in 1..Len(processed) : ConformityIn(processed[j]) = "NOK"

\* a NOK section was summarised, and an OK section after it
C8_Witness ==
  /\ pc = "summarised"
  /\ Len(summary) = 2
  /\ summary[1].Verdict = "NOK"
  /\ summary[2].Verdict = "OK"
  /\ global_verdict = "NOK"

RECURSIVE SumNbLines(_)
SumNbLines(sums) == IF sums = << >> THEN 0 ELSE Head(sums).NbLines + SumNbLines(Tail(sums))

\* C9: a row with verdict "-" adds 1 to the NbLines of its section and nothing
\* to its NbFAIL; the NbLines of the sections add up to the number of processed
\* rows; a section of rows with verdict "-" only has Verdict OK
C9_UndeterminedNotFail ==
  pc = "summarised" =>
    /\ \A i \in 1..Len(summary) :
         /\ summary[i].NbLines = Cardinality(RowsOf(summary[i].Section))
         /\ summary[i].NbFAIL + Cardinality(RowsWith(summary[i].Section, "-"))
              + Cardinality(RowsWith(summary[i].Section, "OK")) = summary[i].NbLines
         /\ RowsWith(summary[i].Section, "-") = RowsOf(summary[i].Section)
              => summary[i].Verdict = "OK"
    /\ SumNbLines(summary) = Len(processed)

\* a section of rows with verdict "-" only was summarised beside another section
C9_Witness ==
  /\ pc = "summarised"
  /\ Len(summary) = 2
  /\ \E i \in 1..Len(summary) :
       /\ RowsWith(summary[i].Section, "-") = RowsOf(summary[i].Section)
       /\ summary[i].NbLines >= 1
       /\ summary[i].NbFAIL = 0
       /\ summary[i].Verdict = "OK"

(***************************************************************************)
(* Header normalisation                                                    *)
(***************************************************************************)
\* the composite headers of a margin column
CompositeMarginCores == { "CISPR.AVG-Lim.Avg", "Peak-Lim.Peak", "Q-Peak-Lim.Q-Peak" }

\* C12: a header that holds a composite margin name gets the label
\* "Margin (dB)", and a header that holds "Q-Peak" and neither a limit nor a
\* margin name gets the label "Q-Peak (dBµV/m)"
C12_HeaderPriority ==
  pc = "normalized" =>
    /\ (\E c \in CompositeMarginCores : Contains(h_text, c)) => h_std = "Margin (dB)"
    /\ (/\ Contains(h_text, "Q-Peak")
        /\ ~Contains(Lower(h_text), "lim")
        /\ ~Contains(Lower(h_text), "margin")) => h_std = "Q-Peak (dBµV/m)"

\* the header "CISPR.AVG-Lim.Avg (dB)" was normalised
C12_Witness ==
  /\ pc = "normalized"
  /\ h_text = "CISPR.AVG-Lim.Avg (dB)"
  /\ h_unit = "CISPR Avg-Limit Avg (dB)"
  /\ h_std = "Margin (dB)"

\* C13: normalize_header of a result of normalize_header is that result; a
\* label of the rules is its own result, and so is a header in which no
\* pattern of the rules occurs
C13_NormalizeIdempotent ==
  pc = "renormalized" =>
    /\ h_twice = h_std
    /\ h_unit \in Labels => h_std = h_unit
    /\ (\A i \in 1..Len(priority_mappings) :
          ~Contains(Lower(Strip(h_unit)), priority_mappings[i][1])) => h_std = h_unit

\* a limit label was normalised twice
C13_Witness ==
  /\ pc = "renormalized"
  /\ h_text = "Limit Peak (dBµV/m)"
  /\ h_twice = "Limit Peak (dBµV/m)"

(***************************************************************************)
(* Order of the measurement list                                           *)
(***************************************************************************)
\* the elements of seq at the indices of idx, in increasing order of index
AtIndices(seq, idx) ==
  [k \in 1..Cardinality(idx) |->
     seq[CHOOSE i \in idx : Cardinality({ j \in idx : j < i }) = k - 1]]

\* the data rows of a table that are not blank, in row order
NonBlankRows(table) ==
  AtIndices(table, { r \in 2..Len(table) : \E i \in 1..Len(table[r]) : Strip(table[r][i]) # "" })

\* the rows of the n blocks right below block t, the nearest block first
RECURSIVE RowsBelow(_, _)
RowsBelow(t, n) ==
  IF n = 0 THEN << >>
  ELSE RowsBelow(t, n - 1)
         \o extract_measurements_from_table(doc[t - n], sample_groups[si].k)

\* C11: the list of a configuration is made of the rows of the scanned
\* blocks, the block nearest below the target first, every block in the
\* order of its rows, a row left out iff an earlier one has its key; and
\* process_data returns one record per measure, in the order of the measures
C11_Order ==
  /\ pc = "store" =>
       LET rows == RowsBelow(target_table_idx, Cardinality(scanned))
       IN /\ scanned = (target_table_idx - Cardinality(scanned))..(target_table_idx - 1)
          /\ \A b \in scanned :
               LET mine == extract_measurements_from_table(doc[b], sample_groups[si].k)
                   src  == NonBlankRows(doc[b])
               IN mine # << >> =>
                    /\ Len(mine) = Len(src)
                    /\ \A k \in 1..Len(mine) :
                         mine[k] = RowDict(NormalizedHeaders(doc[b]), src[k], sample_groups[si].k)
          /\ measurements
               = AtIndices(rows, { i \in 1..Len(rows) :
                                     \A j \in 1..(i - 1) : DedupKey(rows[j]) # DedupKey(rows[i]) })
  /\ pc = "processed" =>
       /\ Len(processed) = Len(cur.measurements)
       /\ \A i \in 1..Len(processed) :
            \A e \in 1..Len(cur.measurements[i]) :
              cur.measurements[i][e].k # "Margin (dB)" =>
                Get(processed[i], cur.measurements[i][e].k, Str("")) = cur.measurements[i][e].v

\* a list of three rows from two blocks was processed
C11_Witness ==
  /\ pc = "processed"
  /\ Len(resolved) = 1
  /\ resolved[1].taken = { 1, 2 }
  /\ Len(processed) = 3

(***************************************************************************)
(* Configuration discovery                                                 *)
(***************************************************************************)
\* the "name test:" rows of the table of a Document of the name family
NameTestRows ==
  { r \in 1..Len(doc[1]) :
      Len(doc[1][r]) >= 2 /\ Contains(Lower(Strip(doc[1][r][1])), "name test:") }

\* the value of such a row, and its prefix: what comes before the first "_"
ValueOf(r) == Strip(doc[1][r][2])
PrefixOf(r) ==
  IF Contains(ValueOf(r), "_") THEN Slice(ValueOf(r), 1, Find(ValueOf(r), "_", 1) - 1)
  ELSE ValueOf(r)

\* the Sample IDs that occur in a text
SampleIdsIn(p) ==
  { Slice(p, i, i + 17) :
      i \in { j \in 1..(Len(p) - 17) : MatchesSampleId(Slice(p, j, j + 17)) } }

\* the value cell of such a row, as the Document has it
CellOf(r) == doc[1][r][2]

\* the cell is a Sample ID, a "_" and a text
IsIdAndText(v) == Len(v) >= 19 /\ MatchesSampleId(Slice(v, 1, 18)) /\ CharAt(v, 19) = "_"

\* C14, as stated: a "name test:" row whose value is a Sample ID s, a "_"
\* and a text t yields a record with sample_id s and config_name t, whatever
\* "_" t holds, so that sample_id, "_" and config_name make the value again
C14_GrammarRoundTrip ==
  pc = "group" =>
    \A r \in NameTestRows :
      IsIdAndText(CellOf(r)) =>
        \E j \in 1..Len(all_configurations) :
          /\ all_configurations[j].sample_id = Slice(CellOf(r), 1, 18)
          /\ all_configurations[j].config_name = Slice(CellOf(r), 20, Len(CellOf(r)))
          /\ all_configurations[j].sample_id \o "_" \o all_configurations[j].config_name
               = CellOf(r)

\* c is the text t without the white space at its end
IsWithoutEnd(c, t) ==
  /\ Len(c) <= Len(t)
  /\ Slice(t, 1, Len(c)) = c
  /\ \A i \in (Len(c) + 1)..Len(t) : IsSpace(CharAt(t, i))
  /\ c = "" \/ ~IsSpace(CharAt(c, Len(c)))

\* C14, amended: a "name test:" row whose value is a Sample ID s, a "_" and
\* a text t yields a record with sample_id s and, as config_name, t without
\* the white space at its end, whatever "_" t holds; sample_id, "_" and
\* config_name of every record make its full_name again, the value without
\* the white space around it
C14_TrimmedRoundTrip ==
  pc = "group" =>
    /\ \A r \in NameTestRows :
         IsIdAndText(CellOf(r)) =>
           \E j \in 1..Len(all_configurations) :
             /\ all_configurations[j].sample_id = Slice(CellOf(r), 1, 18)
             /\ IsWithoutEnd(all_configurations[j].config_name,
                             Slice(CellOf(r), 20, Len(CellOf(r))))
             /\ IsWithoutEnd(all_configurations[j].full_name, CellOf(r))
    /\ \A j \in 1..Len(all_configurations) :
         all_configurations[j].sample_id \o "_" \o all_configurations[j].config_name
           = all_configurations[j].full_name

\* a text with two delimiters was discovered as config_name, and so was a
\* text followed by a space, without the space
C14_Witness ==
  /\ pc = "group"
  /\ \E r \in NameTestRows : CellOf(r) = "CRE2-2025-TP002-02_ER "
  /\ \E j \in 1..Len(all_configurations) :
       /\ all_configurations[j].sample_id = "CRE2-2025-TP002-02"
       /\ all_configurations[j].config_name = "ER"
       /\ all_configurations[j].full_name = "CRE2-2025-TP002-02_ER"
  /\ \E j \in 1..Len(all_configurations) :
       /\ all_configurations[j].sample_id = "CRE2-2025-TP002-02"
       /\ all_configurations[j].config_name = "ER_In front_9kHz"

\* C15: a "name test:" row whose prefix is no Sample ID but holds one yields
\* a record with that Sample ID
C15_RelaxedIdentifier ==
  pc = "group" =>
    \A r \in NameTestRows :
      (Contains(ValueOf(r), "_") /\ ~MatchesSampleId(PrefixOf(r))) =>
        \A s \in SampleIdsIn(PrefixOf(r)) :
          \E j \in 1..Len(all_configurations) :
            /\ all_configurations[j].sample_id = s
            /\ all_configurations[j].full_name = ValueOf(r)

\* the rows whose prefix holds no Sample ID
MalformedRows == { r \in NameTestRows : SampleIdsIn(PrefixOf(r)) = {} }

\* C16: a "name test:" row whose prefix holds no Sample ID yields no record,
\* and the records of the Document are those of the Document without such rows
C16_MalformedIdentifier ==
  pc = "group" =>
    /\ \A r \in MalformedRows :
         \A j \in 1..Len(all_configurations) : all_configurations[j].full_name # ValueOf(r)
    /\ all_configurations
         = extract_all_configurations(<< AtIndices(doc[1], (1..Len(doc[1])) \ MalformedRows) >>)

\* a row without Sample ID was skipped and the other row was discovered
C16_Witness ==
  /\ pc = "group"
  /\ MalformedRows = { 1 }
  /\ ValueOf(1) = "CRE2-25-TP002-02_ER"
  /\ Len(doc[1]) = 2
  /\ Len(all_configurations) = 1
  /\ all_configurations[1].full_name = "CRE2-2024-TP113-10_ER"

(***************************************************************************)
(* Error handling of the scan                                              *)
(***************************************************************************)
\* C17: no Document makes extract_data raise: a block with zero rows, a row
\* with fewer than two cells and a data row shorter than its header row are
\* only skipped
C17_NoFatalCondition == pc # "raised"

\* C18: a block with fewer than 2 rows is never read as a measurement block
\* by the scan, and no block before it is read either: it ends the scan
C18_ShortBlock ==
  \A b \in 1..Len(doc) :
    Len(doc[b]) < 2 =>
      /\ b \notin scanned
      /\ b < target_table_idx => \A c \in scanned : c > b

(***************************************************************************)
(* Classification of the blocks met by the scan                            *)
(***************************************************************************)
\* the stated rule: the normalized header row holds Frequency, Limit or Margin
StatedMeasurementBlock(table) ==
  \E i \in 1..Len(table[1]) :
    \E kw \in { "frequency", "limit", "margin" } :
      Contains(Lower(NormalizedHeaders(table)[i]), kw)

\* C19: the scan reads a block that is not a parameter block as a measurement
\* block if and only if its normalized header row holds Frequency, Limit or
\* Margin, whatever the case of the letters
C19_Classification ==
  /\ \A b \in scanned : StatedMeasurementBlock(doc[b])
  /\ (pc = "store" /\ check_idx > 0 /\ ~is_params_table(doc[check_idx]))
       => ~StatedMeasurementBlock(doc[check_idx])

(***************************************************************************)
(* Duplicate declarations                                                  *)
(***************************************************************************)
\* the list a scan started right below block i collects
RECURSIVE RunBefore(_, _, _, _)
RunBefore(d, i, sample_id, acc) ==
  IF i = 0 \/ Len(d[i]) = 0 \/ ScanBranch(d[i]) # "measurement" THEN acc
  ELSE RunBefore(d, i - 1, sample_id,
                 Accumulate(acc, extract_measurements_from_table(d[i], sample_id)))

\* C20: when two blocks declare the same (sample_id, config_name) pair,
\* extract_data returns, and the list it stores for the pair is the run of
\* measurement blocks right below the later of the declaring blocks
C20_LastWriteWins ==
  pc = "done" =>
    LET ps == ConfigPositions(doc, 1)
    IN \A j, k \in 1..Len(all_configurations) :
         (/\ j < k
          /\ all_configurations[j].sample_id = all_configurations[k].sample_id
          /\ all_configurations[j].config_name = all_configurations[k].config_name
          /\ ps[j][1] # ps[k][1]
          /\ \A l \in (k + 1)..Len(all_configurations) :
               \/ all_configurations[l].sample_id # all_configurations[k].sample_id
               \/ all_configurations[l].config_name # all_configurations[k].config_name)
         => LET sid == all_configurations[k].sample_id
                stored == Get(all_samples_data, sid,
                              [configurations |-> << >>, config_measurements |-> << >>])
            IN /\ Has(all_samples_data, sid)
               /\ Has(stored.config_measurements, all_configurations[k].config_name)
               /\ Get(stored.config_measurements, all_configurations[k].config_name, << >>)
                    = RunBefore(doc, ps[k][1] - 1, sid, << >>)

(***************************************************************************)
(* Order of discovery                                                      *)
(***************************************************************************)
\* the (block, row) places of the rows that qualify
Qualifying ==
  { p \in UNION { { << b, r >> : r \in 1..Len(doc[b]) } : b \in 1..Len(doc) } :
      RowDeclares(doc[p[1]][p[2]]) }

\* the rank of a place in document order: block index, then row index
RankOf(p) ==
  1 + Cardinality({ q \in Qualifying : q[1] < p[1] \/ (q[1] = p[1] /\ q[2] < p[2]) })

\* C24: extract_all_configurations returns one record per qualifying "name
\* test:" row, by block index and then row index; every group of extract_data
\* holds the configurations of its sample_id, and only those, in that order
C24_DiscoveryOrder ==
  pc \in { "config", "done" } =>
    /\ Len(all_configurations) = Cardinality(Qualifying)
    /\ \A p \in Qualifying :
         all_configurations[RankOf(p)].full_name = Strip(doc[p[1]][p[2]][2])
    /\ \A c \in 1..Len(all_configurations) :
         Has(sample_groups, all_configurations[c].sample_id)
    /\ \A g, h \in 1..Len(sample_groups) :
         sample_groups[g].k = sample_groups[h].k => g = h
    /\ \A g \in 1..Len(sample_groups) :
         LET Mine(c) == c.sample_id = sample_groups[g].k
         IN sample_groups[g].v = SelectSeq(all_configurations, Mine)

\* two samples interleaved over two blocks, three configurations
C24_Witness ==
  /\ pc = "config"
  /\ Len(doc) = 2
  /\ Len(all_configurations) = 3
  /\ Len(sample_groups) = 2
  /\ Len(sample_groups[1].v) = 2
  /\ sample_groups[1].v[1].config_name # sample_groups[1].v[2].config_name
  /\ all_configurations[2].sample_id = sample_groups[2].k

(***************************************************************************)
(* Fields of an extracted measure                                          *)
(***************************************************************************)
\* the columns of a table whose normalized header holds a word
ColumnsNamed(table, word) ==
  { i \in 1..Len(table[1]) : Contains(Lower(NormalizedHeaders(table)[i]), word) }

\* a field of a measure holds the text of a cell of one of the columns, or
\* the default when the table has no such column
FieldOrDefault(m, table, field, cols, default) ==
  /\ Has(m, field)
  /\ IF cols = {} THEN Get(m, field, Str("")) = Str(default)
     ELSE \E r \in 2..Len(table) : \E i \in cols :
            Get(m, field, Str("")) = Str(IF i <= Len(table[r]) THEN Strip(table[r][i]) ELSE "")

\* C22: every measure the row extractor builds has a Polarization and a
\* Comment: the cell of the column when the table has one, and otherwise
\* "Vertical" and "-"; stated for the lists read from a single table
C22_DefaultFields ==
  (pc = "store" /\ Cardinality(scanned) = 1) =>
    LET table == doc[target_table_idx - 1]
    IN \A j \in 1..Len(measurements) :
         /\ FieldOrDefault(measurements[j], table, "Polarization",
                           ColumnsNamed(table, "polarization"), "Vertical")
         /\ FieldOrDefault(measurements[j], table, "Comment",
                           ColumnsNamed(table, "comment"), "-")

(***************************************************************************)
(* The Value Cleaner                                                       *)
(***************************************************************************)
\* a text without the sign in front of it
WithoutSign(t) ==
  IF t # "" /\ CharAt(t, 1) \in { "+", "-" } THEN Slice(t, 2, Len(t)) ELSE t

\* a text of digits, single underscores allowed between two digits
IsDigitRun(t) ==
  /\ \E i \in 1..Len(t) : IsDigit(CharAt(t, i))
  /\ \A i \in 1..Len(t) : IsDigit(CharAt(t, i)) \/ CharAt(t, i) = "_"
  /\ \A i \in 1..Len(t) : CharAt(t, i) = "_" =>
        /\ i > 1 /\ IsDigit(CharAt(t, i - 1))
        /\ i < Len(t) /\ IsDigit(CharAt(t, i + 1))

\* digits with at most one point, on one side of the point at least
IsPointNumber(t) ==
  \E p \in 0..Len(t) :
    /\ p = 0 \/ CharAt(t, p) = "."
    /\ LET before == IF p = 0 THEN t ELSE Slice(t, 1, p - 1)
           after  == IF p = 0 THEN "" ELSE Slice(t, p + 1, Len(t))
       IN /\ before = "" \/ IsDigitRun(before)
          /\ after = "" \/ IsDigitRun(after)
          /\ before # "" \/ after # ""

\* a text that reads as a number: an optional sign, then inf, infinity or nan
\* in any case, or a number with an optional exponent
IsFloatLiteral(t) ==
  LET b == WithoutSign(t)
  IN \/ Lower(b) \in { "inf", "infinity", "nan" }
     \/ IsPointNumber(b)
     \/ \E x \in 1..Len(b) :
          /\ CharAt(b, x) \in { "e", "E" }
          /\ IsPointNumber(Slice(b, 1, x - 1))
          /\ IsDigitRun(WithoutSign(Slice(b, x + 1, Len(b))))

\* the texts of the cell family that CPython reads as a number once their
\* commas are points and their ends trimmed, each with the float it reads:
\* in thousandths for a float of three decimals at most, by its repr for
\* any other
CellNumbers ==
  { << "40.5", Milli(40500) >>,
    << "30.000", Milli(30000) >>,
    << "-2.256", Milli(0 - 2256) >>,
    << "+3", Milli(3000) >>,
    << "0", Milli(0) >>,
    << "007", Milli(7000) >>,
    << ".5", Milli(500) >>,
    << "5.", Milli(5000) >>,
    << "-.25", Milli(0 - 250) >>,
    << "12.", Milli(12000) >>,
    << "-.5", Milli(0 - 500) >>,
    << "45.0", Milli(45000) >>,
    << "1e3", Milli(1000000) >>,
    << "1.5E-2", Milli(15) >>,
    << "2e+05", Milli(200000000) >>,
    << "1_0", Milli(10000) >>,
    << "1_0.0_1", Milli(10010) >>,
    << "40.5678", ByRepr("40.5678") >>,
    << "40.505", Milli(40505) >>,
    << "0.1000000000000000055", Milli(100) >>,
    << "9007199254740993", ByRepr("9007199254740992.0") >>,
    << "-0", ByRepr("-0.0") >>,
    << "1e400", ByRepr("inf") >>,
    << "1e-400", Milli(0) >>,
    << "inf", ByRepr("inf") >>,
    << "-Infinity", ByRepr("-inf") >>,
    << "+iNf", ByRepr("inf") >>,
    << "nan", ByRepr("nan") >>,
    << "-NaN", ByRepr("nan") >> }

\* C23: clean_decimal returns the number a cell text reads as once its commas
\* are points and its ends trimmed, and the trimmed text itself when it is no
\* number; the texts that read as a number are those CPython reads as one;
\* the row of an unparsable cell is extracted with the cell as text
C23_ValueCleaner ==
  /\ pc \in { "cleaned", "row" } =>
       LET t == Strip(Replace(c_text, ",", "."))
       IN /\ IsFloatLiteral(t) <=> \E p \in CellNumbers : p[1] = t
          /\ IF IsFloatLiteral(t)
             THEN \E p \in CellNumbers : p[1] = t /\ c_val = Float(p[2])
             ELSE c_val = Str(Strip(c_text))
  /\ pc = "row" =>
       /\ Len(c_row) = 1
       /\ Has(c_row[1], "Mesure (dBµV/m)")
       /\ Get(c_row[1], "Mesure (dBµV/m)", Str("")) = c_val
       /\ Get(c_row[1], "Frequency (MHz)", Str("")) = Num(30 * Scale)

\* a padded number with a decimal comma was read, and its row extracted
C23_Witness ==
  /\ pc = "row"
  /\ c_text = " 40,5 "
  /\ c_val = Num(40 * Scale + 500)
  /\ Len(c_row) = 1

\* a row with a cell that is no number was extracted, the cell kept as text
C23_WitnessText ==
  /\ pc = "row"
  /\ c_text = " 1,5 dB"
  /\ Len(c_row) = 1
  /\ Get(c_row[1], "Mesure (dBµV/m)", Str("")) = Str("1,5 dB")

(***************************************************************************)
(* Overtaking                                                              *)
(***************************************************************************)
\* max(0, -margin) of a numeric margin
MaxZeroMinus(margin) ==
  IF margin.s = "" THEN Num(IF margin.n >= 0 THEN 0 ELSE 0 - margin.n)
  ELSE IF CharAt(margin.s, 1) = "-" /\ margin.s # "-0.0"
       THEN Float(ByRepr(Slice(margin.s, 2, Len(margin.s))))
       ELSE Num(0)

\* C26: a processed record with a numeric margin has "Overtaking (dB)" equal
\* to max(0, -Margin): 0 for a margin >= 0, the exceedance for a margin < 0
C26_Overtaking ==
  pc = "processed" =>
    \A i \in 1..Len(processed) :
      IsNum(MarginIn(processed[i])) =>
        Get(processed[i], "Overtaking (dB)", Str(""))
          = MaxZeroMinus(MarginIn(processed[i]))

(***************************************************************************)
(* Deduplication and distinct rows                                         *)
(***************************************************************************)
\* C27: a row of a scanned block is left out of the list of the configuration
\* only if the list holds a record equal to it in every field
C27_DistinctRowsKept ==
  pc = "store" =>
    LET rows == RowsBelow(target_table_idx, Cardinality(scanned))
    IN \A j \in 1..Len(rows) :
         \E k \in 1..Len(measurements) : measurements[k] = rows[j]

(***************************************************************************)
(* Configurations without measurements                                     *)
(***************************************************************************)
\* C28: the global verdict of a configuration whose measurement list is empty
\* is not "OK"
C28_EmptyNotCompliant ==
  (pc = "summarised" /\ cur.measurements = << >>) => global_verdict # "OK"

(***************************************************************************)
(* End to end                                                              *)
(***************************************************************************)
\* a Document of one single-detector table (Frequency, detector, its limit,
\* the composite margin) right before the declaration of one configuration
SingleDetectorDocument ==
  /\ Len(doc) = 2
  /\ doc[2] = ParamsER
  /\ Len(doc[1]) >= 1
  /\ doc[1][1] \in { << "Frequency (MHz)", "CISPR.AVG", "Lim.Avg", "CISPR.AVG-Lim.Avg" >>,
                     << "Frequency (MHz)", "Peak", "Lim.Peak", "Peak-Lim.Peak (dB)" >> }

\* what the claim asks of the record of a data row with three numeric cells
EndToEndRecord(r, row, detector) ==
  LET f == clean_decimal(row[1])
      m == clean_decimal(row[2])
      l == clean_decimal(row[3])
  IN (IsNum(f) /\ IsNum(m) /\ IsNum(l)) =>
       /\ Get(r, "Frequency (MHz)", Str("")) = f
       /\ MeasureOf(r) = m
       /\ LimitOf(r) = l
       /\ Get(r, "Detector type", Str("")) = Str(detector)
       /\ MarginIn(r) = RoundedDifference(l, m)
       /\ ConformityIn(r) = VerdictBySign(RoundedDifference(l, m))

\* C25: on such a Document the pipeline yields one record per non-blank data
\* row, with the cleaned Frequency, Measure and Limit of the row, the detector
\* of the measure column, Margin = round(Limit - Measure, 2) and the verdict
\* of that margin
C25_EndToEnd ==
  (pc = "processed" /\ SingleDetectorDocument) =>
    LET src == NonBlankRows(doc[1])
    IN /\ Len(processed) = Len(src)
       /\ \A k \in 1..Len(src) : EndToEndRecord(processed[k], src[k], doc[1][1][2])

\* the test parameters of one configuration name the Sample ID and the
\* configuration they were resolved for
KeepsIdentity(sample_id, e) ==
  /\ Get(e.v, "Sample ID", Str("")) = Str(sample_id)
  /\ Get(e.v, "Configuration", Str("")) = Str(e.k)

\* C30: the record extract_test_params_for_configuration returns for
\* (sample_id, config_name) has "Sample ID" equal to sample_id and
\* "Configuration" equal to config_name, in the group under way and in every
\* stored group: no row of the Document overwrites either field
C30_TestParamsIdentity ==
  /\ \A c \in 1..Len(config_test_params) :
       KeepsIdentity(sample_groups[si].k, config_test_params[c])
  /\ \A s \in 1..Len(all_samples_data) :
       \A c \in 1..Len(all_samples_data[s].v.config_test_params) :
         KeepsIdentity(all_samples_data[s].k, all_samples_data[s].v.config_test_params[c])

\* C29: when at least one configuration is discovered, the record
\* extract_data returns holds every key main reads from it, and main's loop
\* goes past its first statements without raising
C29_PipelineCompletes ==
  /\ (pc = "done" /\ all_configurations # << >>) =>
       \A s \in 1..Len(all_samples_data) : MainKeys \subseteq DOMAIN all_samples_data[s].v
  /\ pc # "main_raised"

\* a call that returned holds the list the sequential call returns for its
\* configuration, and a call raised exactly when the sequential call raises
SameAsSequential ==
  \A w \in DOMAIN workers :
    LET seq == extract_measurements_for_configuration(doc, workers[w].config.sample_id,
                                                      workers[w].config.config_name)
    IN /\ workers[w].pc = "done" =>
            ~seq.raised /\ workers[w].measurements = seq.list
       /\ workers[w].pc = "raised" => seq.raised

\* a step leaves the Document alone, and the list of every call that did not
\* take the step
OwnListOnly ==
  /\ doc' = doc
  /\ \A w \in DOMAIN workers :
       (/\ w \in DOMAIN workers'
        /\ workers'[w].pc = workers[w].pc
        /\ workers'[w].check_idx = workers[w].check_idx)
       => workers'[w] = workers[w]

\* C21: with one call of the resolver per configuration and the steps of the
\* calls interleaved in any order, every call returns the list the sequential
\* run resolves for its configuration, and no step modifies the Document or
\* the list of another call
C21_Independence == [](SameAsSequential) /\ [][OwnListOnly]_vars

\* two calls under way at once: the later configuration's call has returned
\* its rows while the earlier one is still in its scan with rows of its own
C21_Witness ==
  \E v, w \in DOMAIN workers :
    /\ v < w
    /\ workers[w].pc = "done"
    /\ workers[w].measurements # << >>
    /\ workers[v].pc = "scan"
    /\ workers[v].measurements # << >>
    /\ workers[v].measurements # workers[w].measurements

====
